---- MODULE Spec2Model ----
(***************************************************************************)
(* YouTube2Slides: the background job pipeline of backend/app.py           *)
(* (process_video, process_video_task, log_job_progress, get_job_status)   *)
(* with the services it drives (subtitle.py, subtitle_optimizer.py,        *)
(* frame_extractor.py, translator.py, ai_translator.py, youtube.py).       *)
(*                                                                         *)
(* Conventions.                                                            *)
(*  - A Python None is the empty sequence << >>, a present value x is      *)
(*    <<x>> (None / Some).                                                 *)
(*  - A text is a sequence of one-character strings.                       *)
(*  - Caption times are integers (milliseconds); a keyframe timestamp is   *)
(*    kept doubled (2*ts) so that the midpoint (start+end)/2.0 is exact;   *)
(*    the rounding of float arithmetic is not modelled.                    *)
(*  - A progress event carries no wall-clock timestamp.                    *)
(*  - A message is a tuple of strings: a tag and the values formatted into *)
(*    it.                                                                  *)
(*                                                                         *)
(* Specifications.                                                         *)
(*  - Spec      one job, any request; a call of log_job_progress is one    *)
(*              step.                                                      *)
(*  - FairSpec  Spec with the worker thread running the task to its end.   *)
(*  - SpecPoll  one job and a status poll; the sync task runs in a worker  *)
(*              thread, so every write of log_job_progress is one step    *)
(*              and the poll can run between any two of them.              *)
(*  - SpecTwo   two jobs for two videos, their tasks interleaved.          *)
(*  - SpecTranslate, SpecMerge, SpecKeyframes, SpecTextAt, SpecOptimize    *)
(*              calls of service functions on their own (a translator, a   *)
(*              merge path of the optimizer, the keyframe selector, the    *)
(*              text lookup, the optimizer and its statistics) for any     *)
(*              input of a bounded set; call holds the frame.              *)
(*  - FairSpecTranslate                                                    *)
(*              SpecTranslate with the call running to its return.         *)
(***************************************************************************)
EXTENDS Integers, Sequences, FiniteSets, TLC

VARIABLES
    jobs,                \* app.py:69   jobs: job id -> job record
    task,                \* app.py:202  per job: position and locals of process_video_task
    files,               \* storage/subtitles: path -> caption blocks
    processor_segments,  \* subtitle.py:27  subtitle_processor.segments (one shared instance)
    snapshot,            \* app.py:671  the last response of get_job_status
    call                 \* a service function called on its own: arguments, locals, result

vars == <<jobs, task, files, processor_segments, snapshot, call>>

None == << >>
Some(x) == <<x>>

\* ------------------------------------------------------------------ bounds
\* progress reports of one download, of a long download, and frames ffmpeg
\* fails on in one job
MaxDownloadTicks == 2
LongDownloadTicks == 200
MaxFfmpegErrors == 1
\* texts in a list handed to a translator called on its own, and the length of
\* a long text
MaxTexts == 3
LongTextLen == 200
\* fragments in a list handed to the merge engine called on its own
MaxFragments == 3
\* fragments in a caption file handed to the optimizer called on its own
MaxCaptions == 21

\* ------------------------------------------------------- program constants
HISTORY_MAX_ENTRIES == 200

PENDING == "pending"
PROCESSING == "processing"
COMPLETED == "completed"
FAILED == "failed"
JobStatus == {PENDING, PROCESSING, COMPLETED, FAILED}

\* --------------------------------------------------------------- arithmetic
Max(a, b) == IF a >= b THEN a ELSE b
Min(a, b) == IF a <= b THEN a ELSE b

\* -------------------------------------------------------- log_job_progress
\* One call of log_job_progress(job_id, step=, status=, progress=, message=).
LogCall(step, status, progress, message) ==
    [step |-> step, status |-> status, progress |-> progress, message |-> message]

\* log_job_progress(..., step, progress, message) with status left None.
Log(step, progress, tag) == LogCall(step, None, Some(progress), Some(<<tag>>))

Running(j) == j \in DOMAIN task /\ task[j].pending # << >>

\* app.py:115-116  if status is not None: job["status"] = status
LogStatus(j) ==
    /\ Running(j)
    /\ task[j].lsub = 0
    /\ LET c == Head(task[j].pending) IN
       jobs' = [jobs EXCEPT ![j].status = IF c.status # None THEN c.status[1] ELSE @]
    /\ task' = [task EXCEPT ![j].lsub = 1]
    /\ UNCHANGED <<files, processor_segments, snapshot, call>>

\* app.py:117-118  if progress is not None: job["progress"] = int(progress)
LogProgress(j) ==
    /\ Running(j)
    /\ task[j].lsub = 1
    /\ LET c == Head(task[j].pending) IN
       jobs' = [jobs EXCEPT ![j].progress = IF c.progress # None THEN c.progress[1] ELSE @]
    /\ task' = [task EXCEPT ![j].lsub = 2]
    /\ UNCHANGED <<files, processor_segments, snapshot, call>>

\* app.py:119-120  if message is not None: job["message"] = message
LogMessage(j) ==
    /\ Running(j)
    /\ task[j].lsub = 2
    /\ LET c == Head(task[j].pending) IN
       jobs' = [jobs EXCEPT ![j].message = IF c.message # None THEN c.message[1] ELSE @]
    /\ task' = [task EXCEPT ![j].lsub = 3]
    /\ UNCHANGED <<files, processor_segments, snapshot, call>>

\* app.py:121  job["current_step"] = step
LogStep(j) ==
    /\ Running(j)
    /\ task[j].lsub = 3
    /\ jobs' = [jobs EXCEPT ![j].current_step = Some(Head(task[j].pending).step)]
    /\ task' = [task EXCEPT ![j].lsub = 4]
    /\ UNCHANGED <<files, processor_segments, snapshot, call>>

\* app.py:123-129  the event is built from the job's fields as they are now
Event(job, step) ==
    [status |-> job.status, step |-> step, message |-> job.message,
     progress |-> job.progress]

\* app.py:131-132  history.append(event)
LogAppend(j) ==
    /\ Running(j)
    /\ task[j].lsub = 4
    /\ jobs' = [jobs EXCEPT ![j].history =
                   Append(@, Event(jobs[j], Head(task[j].pending).step))]
    /\ task' = [task EXCEPT ![j].lsub = 5]
    /\ UNCHANGED <<files, processor_segments, snapshot, call>>

\* Faulty variant of Trimmed: the newest events are dropped.
TrimmedFromTail(history) ==
    IF Len(history) > HISTORY_MAX_ENTRIES
    THEN SubSeq(history, 1, HISTORY_MAX_ENTRIES)
    ELSE history

\* app.py:133-134  del history[:-HISTORY_MAX_ENTRIES]
Trimmed(history) ==
    IF Len(history) > HISTORY_MAX_ENTRIES
    THEN SubSeq(history, Len(history) - HISTORY_MAX_ENTRIES + 1, Len(history))
    ELSE history

\* app.py:133-134, and the return of log_job_progress
LogTrim(j) ==
    /\ Running(j)
    /\ task[j].lsub = 5
    /\ jobs' = [jobs EXCEPT ![j].history = Trimmed(@)]
    /\ task' = [task EXCEPT ![j].lsub = 0, ![j].pending = Tail(@)]
    /\ UNCHANGED <<files, processor_segments, snapshot, call>>

\* app.py:112-134  one whole call, for a job nobody reads concurrently
Logged(job, c) ==
    LET written == [job EXCEPT
                      !.status = IF c.status # None THEN c.status[1] ELSE @,
                      !.progress = IF c.progress # None THEN c.progress[1] ELSE @,
                      !.message = IF c.message # None THEN c.message[1] ELSE @,
                      !.current_step = Some(c.step)]
    IN [written EXCEPT !.history = Trimmed(Append(@, Event(written, c.step)))]

log_job_progress(j) ==
    /\ Running(j)
    /\ task[j].lsub = 0
    /\ jobs' = [jobs EXCEPT ![j] = Logged(@, Head(task[j].pending))]
    /\ task' = [task EXCEPT ![j].pending = Tail(@)]
    /\ UNCHANGED <<files, processor_segments, snapshot, call>>

LogJobProgress(j) ==
    \/ LogStatus(j)
    \/ LogProgress(j)
    \/ LogMessage(j)
    \/ LogStep(j)
    \/ LogAppend(j)
    \/ LogTrim(j)

\* ==================================================================== text
\* The alphabet of the model: letters, the space, and the ASCII members of the
\* optimizer's punctuation sets (the full-width members and the one-character
\* ellipsis are outside the alphabet).
Letters == {"a", "b", "c"}

\* subtitle_optimizer.py:71
sentence_endings == {".", "!", "?"}
\* subtitle_optimizer.py:73
pause_marks == {",", ";", ":"}

Last(t) == t[Len(t)]

RECURSIVE LStrip(_)
LStrip(t) == IF t # << >> /\ Head(t) = " " THEN LStrip(Tail(t)) ELSE t

RECURSIVE RStrip(_)
RStrip(t) == IF t # << >> /\ Last(t) = " " THEN RStrip(SubSeq(t, 1, Len(t) - 1)) ELSE t

\* str.strip()
Strip(t) == RStrip(LStrip(t))

\* subtitle_optimizer.py:77  sentence_pattern.search(text): the position of the
\* first sentence-ending character (an ASCII ellipsis starts with one), 0 if none
FirstBoundary(t) ==
    IF \E k \in 1..Len(t) : t[k] \in sentence_endings
    THEN CHOOSE k \in 1..Len(t) :
            /\ t[k] \in sentence_endings
            /\ \A m \in 1..(k - 1) : t[m] \notin sentence_endings
    ELSE 0

\* subtitle_optimizer.py:79-97
contains_complete_sentence(text) ==
    /\ Strip(text) # << >>
    /\ FirstBoundary(Strip(text)) # 0

\* subtitle_optimizer.py:310-329  (first_sentence, remaining)
split_at_first_sentence(text) ==
    LET pos == FirstBoundary(text) IN
    IF pos = 0 THEN <<text, << >> >>
    ELSE <<Strip(SubSeq(text, 1, pos)), Strip(SubSeq(text, pos + 1, Len(text)))>>

\* subtitle_optimizer.py:395-397, 434-436, 445-449  text += ' ' if needed; text += more
Joined(text, more) ==
    (IF text # << >> /\ Last(text) # " " THEN Append(text, " ") ELSE text) \o more

\* subtitle_optimizer.py:30-47  language_markers: the sentence-final endings and
\* particles of a language; "ds" and "k" stand for a Japanese ending and particle
language_markers(lang_base) ==
    IF lang_base = "ja" THEN {<<"d", "s">>, <<"k">>} ELSE {}

EndsWith(t, suffix) ==
    /\ Len(suffix) <= Len(t)
    /\ SubSeq(t, Len(t) - Len(suffix) + 1, Len(t)) = suffix

\* subtitle_optimizer.py:99-132  (language None is "")
detect_language_ending(text, language) ==
    /\ text # << >>
    /\ language # ""
    /\ \E m \in language_markers(language) : EndsWith(Strip(text), m)

\* ======================================================= subtitle optimizer
\* A caption block is [start_time, end_time, text].
Block(s, e, t) == [start_time |-> s, end_time |-> e, text |-> t]

\* subtitle_optimizer.py:50-56  merge_config
min_chars == 40
target_chars == 80
max_chars == 150
\* max_time_gap 1.5 s, in milliseconds
max_time_gap == 1500

\* subtitle_optimizer.py:440-450  the inner loop of _merge_segments:
\* <<i, current_segment>> when it stops
RECURSIVE MergeAbsorb(_, _, _)
MergeAbsorb(segments, i, cur) ==
    IF i < Len(segments) /\ ~contains_complete_sentence(cur.text)
    THEN MergeAbsorb(segments, i + 1,
                     Block(cur.start_time, segments[i + 1].end_time,
                           Joined(cur.text, segments[i + 1].text)))
    ELSE <<i, cur>>

\* Faulty variant of OverflowSegment: the overflow starts where the last segment starts.
OverflowSegmentFromStart(last_segment, overflow_text) ==
    Block(last_segment.start_time, last_segment.end_time, overflow_text)

\* subtitle_optimizer.py:472-477  the segment of the overflow left at the end
OverflowSegment(last_segment, overflow_text) ==
    Block(last_segment.end_time, last_segment.end_time, overflow_text)

\* subtitle_optimizer.py:422-466  one pass of the outer loop of _merge_segments
\* from fragment i (1-based) with the overflow carried in; 468-480 at the end
RECURSIVE MergeFrom(_, _, _, _)
MergeFrom(segments, i, overflow_text, merged) ==
    IF i > Len(segments)
    THEN IF overflow_text # << >> /\ merged # << >>
         THEN Append(merged, OverflowSegment(Last(merged), overflow_text))
         ELSE merged
    ELSE
      LET seeded == IF overflow_text # << >> THEN overflow_text ELSE segments[i].text
          start == IF seeded # segments[i].text
                   THEN Block(segments[i].start_time, segments[i].end_time,
                              Joined(seeded, segments[i].text))
                   ELSE Block(segments[i].start_time, segments[i].end_time, seeded)
          done == MergeAbsorb(segments, i, start)
          cur == done[2]
          parts == split_at_first_sentence(cur.text)
      IN MergeFrom(segments, done[1] + 1, parts[2],
                   IF parts[1] # << >>
                   THEN Append(merged, Block(cur.start_time, cur.end_time, parts[1]))
                   ELSE merged)

\* subtitle_optimizer.py:405-480
merge_segments(segments) == MergeFrom(segments, 1, << >>, << >>)

\* subtitle_optimizer.py:367-388  should_merge of _smart_merge
ShouldMerge(cur, next_seg, language) ==
    LET current_len == Len(cur.text)
        time_gap == next_seg.start_time - cur.end_time
        wanted ==
            IF current_len < min_chars THEN TRUE
            ELSE IF time_gap < max_time_gap /\ current_len < target_chars THEN TRUE
            ELSE IF language # ""
                 THEN ~detect_language_ending(cur.text, language)
                      /\ current_len < max_chars
                 ELSE FALSE
    IN wanted /\ ~(current_len >= max_chars)

\* subtitle_optimizer.py:357-398  the inner loop of _smart_merge
RECURSIVE SmartAbsorb(_, _, _, _)
SmartAbsorb(segments, i, cur, language) ==
    IF i < Len(segments) /\ ShouldMerge(cur, segments[i + 1], language)
    THEN SmartAbsorb(segments, i + 1,
                     Block(cur.start_time, segments[i + 1].end_time,
                           Joined(cur.text, segments[i + 1].text)),
                     language)
    ELSE <<i, cur>>

RECURSIVE SmartFrom(_, _, _, _)
SmartFrom(segments, i, merged, language) ==
    IF i > Len(segments) THEN merged
    ELSE LET done == SmartAbsorb(segments, i, segments[i], language)
         IN SmartFrom(segments, done[1] + 1, Append(merged, done[2]), language)

\* subtitle_optimizer.py:331-403
smart_merge(segments, language) == SmartFrom(segments, 1, << >>, language)

\* subtitle_optimizer.py:252  any(p in text for p in sentence_endings | pause_marks)
HasPunct(text) == \E k \in 1..Len(text) : text[k] \in (sentence_endings \cup pause_marks)

\* Faulty variant of detect_punctuation: 30% is enough.
DetectPunctuationAtThreshold(segments) ==
    IF segments = << >> THEN FALSE
    ELSE LET n == Min(20, Len(segments))
             punct_count == Cardinality({k \in 1..n : HasPunct(segments[k].text)})
         IN 10 * punct_count >= 3 * n

\* subtitle_optimizer.py:236-255  punct_count / min(20, len(segments)) > 0.3
detect_punctuation(segments) ==
    IF segments = << >> THEN FALSE
    ELSE LET n == Min(20, Len(segments))
             punct_count == Cardinality({k \in 1..n : HasPunct(segments[k].text)})
         IN 10 * punct_count > 3 * n

\* subtitle_optimizer.py:200-234  the blocks optimize_srt_file writes
optimize_srt_file(segments, language) ==
    IF detect_punctuation(segments)
    THEN merge_segments(segments)
    ELSE smart_merge(segments, language)

\* round(x, 2) of x = 100 * (n - m) / n, in hundredths of a percent
\* (round half to even; n > 0, 0 <= m)
RoundedHundredths(n, m) ==
    LET num == 10000 * (n - m)
        q == num \div n
        r == num % n
    IN IF 2 * r > n \/ (2 * r = n /\ q % 2 = 1) THEN q + 1 ELSE q

\* subtitle_optimizer.py:490-499  get_optimization_stats; reduction_percentage
\* is in hundredths of a percent
get_optimization_stats(segments) ==
    LET merged == merge_segments(segments) IN
    [original_segments |-> Len(segments),
     optimized_segments |-> Len(merged),
     reduction_percentage |->
        IF segments # << >> THEN RoundedHundredths(Len(segments), Len(merged)) ELSE 0]

\* ============================================== the videos and the requests
\* What the platform and the transcription service hold for a video:
\* captions is "none", "manual" or "auto" (youtube.py:270-277 is_auto_caption),
\* blocks the caption file download_subtitles writes, whisper the file
\* transcribe_video writes.
\* hook is the set of percentage sequences the download reports to its progress
\* hook (youtube.py:67-76), taken here as whole percentages that never go down.
T_a == <<"a">>
T_b_dot == <<"b", ".">>
T_c_dot == <<"c", ".">>

\* The percentages a short download reports.
DownloadPercents == {50, 100}

IsPrefix(s, t) == Len(s) <= Len(t) /\ SubSeq(t, 1, Len(s)) = s

Reports(n) ==
    {s \in UNION {[1..k -> DownloadPercents] : k \in 0..n} :
        \A a \in 1..(Len(s) - 1) : s[a] <= s[a + 1]}

\* A long download: one report per chunk.
LongReport == [k \in 1..LongDownloadTicks |-> (k * 100) \div LongDownloadTicks]

\* Ten fragments that merge to seven: a reduction of exactly 30%.
EdgeBlocks ==
    [k \in 1..10 |->
        Block(1000 * (k - 1), 1000 * k, IF k \in {1, 3, 5} THEN T_a ELSE T_b_dot)]

Catalogue ==
    [none   |-> [captions |-> "none", lang |-> "en", blocks |-> << >>,
                 whisper |-> <<Block(0, 1000, T_b_dot)>>,
                 hook |-> Reports(MaxDownloadTicks)],
     manual |-> [captions |-> "manual", lang |-> "en",
                 blocks |-> <<Block(0, 500, T_a), Block(500, 1500, T_c_dot),
                              Block(1500, 2500, T_b_dot)>>,
                 whisper |-> <<Block(0, 2000, T_c_dot)>>,
                 hook |-> Reports(MaxDownloadTicks)],
     auto   |-> [captions |-> "auto", lang |-> "en",
                 blocks |-> <<Block(0, 1000, T_a), Block(1000, 2000, T_b_dot),
                              Block(2000, 3000, T_c_dot)>>,
                 whisper |-> <<Block(0, 3000, T_b_dot)>>,
                 hook |-> Reports(MaxDownloadTicks)],
     edge   |-> [captions |-> "auto", lang |-> "en", blocks |-> EdgeBlocks,
                 whisper |-> <<Block(0, 10000, T_b_dot)>>,
                 hook |-> {<< >>}],
     first  |-> [captions |-> "manual", lang |-> "en",
                 blocks |-> <<Block(0, 1000, T_a)>>,
                 whisper |-> <<Block(0, 1000, T_a)>>,
                 hook |-> {<< >>}],
     second |-> [captions |-> "manual", lang |-> "en",
                 blocks |-> <<Block(2000, 3000, T_b_dot)>>,
                 whisper |-> <<Block(2000, 3000, T_b_dot)>>,
                 hook |-> {<< >>}],
     long   |-> [captions |-> "none", lang |-> "en", blocks |-> << >>,
                 whisper |-> <<Block(0, 1000, T_b_dot)>>,
                 hook |-> {LongReport}]]

Videos == DOMAIN Catalogue

\* schemas.py:60-73  ProcessVideoRequest
Request(url, use_ai, whisper_key, translate_to, outline, provider, position, offset) ==
    [url |-> url, use_ai_transcription |-> use_ai, whisper_api_key |-> whisper_key,
     translate_to |-> translate_to, generate_outline |-> outline,
     ai_provider |-> provider, screenshot_position |-> position,
     screenshot_offset |-> offset]

\* No AI transcription, no translation, no outline.
PlainRequest(v) == Request(v, FALSE, None, None, FALSE, None, "middle", 0)

\* Every combination of the options for the short videos; the plain request
\* for the ten-fragment video and for the long download.
Requests ==
    {Request(v, ai[1], ai[2], tr, ol[1], ol[2], "middle", 0) :
        v \in {"none", "manual", "auto"},
        ai \in {<<FALSE, None>>, <<TRUE, None>>, <<TRUE, Some("key")>>},
        tr \in {None, Some("zh-TW")},
        ol \in {<<FALSE, None>>, <<TRUE, Some("openai")>>}}
    \cup {PlainRequest("edge"), PlainRequest("long")}

\* storage/subtitles paths: youtube.py:308, audio_transcription, and
\* subtitle_optimizer.py:215 (stem.optimized.srt)
CaptionPath(v) == <<v, "captions">>
WhisperPath(v) == <<v, "whisper">>
OptimizedPath(path) == Append(path, "optimized")

\* ------------------------------------------------------- SubtitleProcessor
\* subtitle.py:29-74  parse_srt: a block with no text line is skipped, the text
\* is stripped, the index is the one written in the file (its position)
RECURSIVE ParseBlocks(_, _)
ParseBlocks(blocks, k) ==
    IF k > Len(blocks) THEN << >>
    ELSE (IF Strip(blocks[k].text) = << >> THEN << >>
          ELSE <<[index |-> k, start_time |-> blocks[k].start_time,
                  end_time |-> blocks[k].end_time, text |-> Strip(blocks[k].text)]>>)
         \o ParseBlocks(blocks, k + 1)

parse_srt(blocks) == ParseBlocks(blocks, 1)

\* Faulty variant of KeyframeOf: the offset is applied without the clamp.
KeyframeOfUnclamped(segment, offset, position) ==
    (IF position = "start" THEN 2 * segment.start_time
     ELSE IF position = "end" THEN 2 * segment.end_time
     ELSE segment.start_time + segment.end_time) + 2 * offset

\* subtitle.py:90-115  get_keyframe_timestamps, each timestamp doubled
KeyframeOf(segment, offset, position) ==
    LET ts2 == IF position = "start" THEN 2 * segment.start_time
               ELSE IF position = "end" THEN 2 * segment.end_time
               ELSE segment.start_time + segment.end_time
    IN Max(0, ts2 + 2 * offset)

get_keyframe_timestamps(segments, offset, position) ==
    [k \in 1..Len(segments) |-> KeyframeOf(segments[k], offset, position)]

\* Faulty variant of get_subtitle_at_time: no special case at the end of the list.
GetSubtitleAtTimeHalfOpen(segments, ts2) ==
    LET covering == {k \in 1..Len(segments) :
                        2 * segments[k].start_time <= ts2 /\ ts2 < 2 * segments[k].end_time}
    IN IF covering = {} THEN << >>
       ELSE segments[CHOOSE k \in covering : \A m \in covering : k <= m].text

\* subtitle.py:117-129  get_subtitle_at_time (timestamp doubled; "" is << >>)
RECURSIVE TextScan(_, _, _)
TextScan(segments, ts2, k) ==
    IF k > Len(segments) THEN << >>
    ELSE IF 2 * segments[k].start_time <= ts2 /\ ts2 < 2 * segments[k].end_time
         THEN segments[k].text
    ELSE IF segments[k] = segments[Len(segments)] /\ ts2 = 2 * segments[k].end_time
         THEN segments[k].text
    ELSE TextScan(segments, ts2, k + 1)

get_subtitle_at_time(segments, ts2) == TextScan(segments, ts2, 1)

\* ===================================================== translation services
\* The text a translation backend returns for a text.
Translated(text) == <<"zh-TW:">> \o text

\* ai_translator.py:75-81  _get_target_char_count
ollama_target_chars == 300
cloud_target_chars == 1000

get_target_char_count(provider) ==
    IF provider = "ollama" THEN ollama_target_chars ELSE cloud_target_chars

\* ai_translator.py:83  max_batch_size: int = 5
max_batch_size == 5

\* ai_translator.py:108-124  the loop of _calculate_batch_by_char_count from
\* text k (1-based): batch_count when it stops
RECURSIVE BatchCount(_, _, _, _, _)
BatchCount(texts, k, accumulated_chars, batch_count, target) ==
    IF k > Len(texts) THEN batch_count
    ELSE IF accumulated_chars + Len(texts[k]) > target
         THEN (IF batch_count = 0 THEN 1 ELSE batch_count)
    ELSE IF batch_count + 1 >= max_batch_size THEN batch_count + 1
    ELSE BatchCount(texts, k + 1, accumulated_chars + Len(texts[k]), batch_count + 1,
                    target)

\* Faulty variant of calculate_batch_by_char_count: the characters are not counted.
CalculateBatchByItemCount(texts, provider) == Min(Len(texts), max_batch_size)

\* ai_translator.py:83-127
calculate_batch_by_char_count(texts, provider) ==
    IF texts = << >> THEN 0
    ELSE Max(1, Min(BatchCount(texts, 1, 0, 0, get_target_char_count(provider)),
                    max_batch_size))

\* What a provider does with one batch: its response parses to one translation
\* per text, to fewer, to more, to none, or the request raises.
BackendBehaviours == {"complete", "too_few", "too_many", "unparseable", "raise"}

\* ai_translator.py:286-355  the list _parse_translation_response returns
ParsedResponse(texts, behaviour) ==
    LET complete == [k \in 1..Len(texts) |-> Translated(texts[k])] IN
    IF behaviour = "complete" THEN complete
    ELSE IF behaviour = "too_few" THEN SubSeq(complete, 1, Len(texts) - 1)
    ELSE IF behaviour = "too_many" THEN Append(complete, Translated(<<"c">>))
    ELSE << >>

\* Faulty variant of translate_with_provider: the list is returned as parsed.
TranslateWithProviderUnchecked(texts, behaviour) == ParsedResponse(texts, behaviour)

\* ai_translator.py:387-395 (433, 471, 515 alike)  _translate_with_openai after
\* the response arrived: a list of another length is replaced by the texts
translate_with_provider(texts, behaviour) ==
    LET translations == ParsedResponse(texts, behaviour) IN
    IF Len(translations) # Len(texts) THEN texts ELSE translations

\* ai_translator.py:262-271  pad with the original text while translations miss
RECURSIVE Padded(_, _)
Padded(translated_batch, batch) ==
    IF Len(translated_batch) < Len(batch)
    THEN Padded(Append(translated_batch, batch[Len(translated_batch) + 1]), batch)
    ELSE translated_batch

\* ai_translator.py:202-207  translate_batch entered: its locals; dispatches
\* records each batch (where it starts in texts, its size, its texts, what the
\* provider did)
translate_batch_call(texts, provider) ==
    [fn |-> "translate_batch", texts |-> texts, provider |-> provider,
     remaining_texts |-> texts, all_translations |-> << >>, batch_num |-> 0,
     dispatches |-> << >>, result |-> None]

\* Faulty variant of translate_batch_step: a dispatch that raises ends the loop.
TranslateBatchStepAborting(f, behaviour) ==
    IF f.remaining_texts = << >> THEN [f EXCEPT !.result = Some(f.all_translations)]
    ELSE
      LET current_batch_size == calculate_batch_by_char_count(f.remaining_texts, f.provider)
          taken == Min(current_batch_size, Len(f.remaining_texts))
          batch == SubSeq(f.remaining_texts, 1, taken)
      IN [f EXCEPT
            !.batch_num = @ + 1,
            !.remaining_texts =
                IF behaviour = "raise" THEN << >> ELSE SubSeq(@, taken + 1, Len(@)),
            !.all_translations =
                @ \o (IF behaviour = "raise" THEN batch
                      ELSE Padded(translate_with_provider(batch, behaviour), batch)),
            !.dispatches =
                Append(@, [start |-> Len(f.texts) - Len(f.remaining_texts),
                           size |-> taken, batch |-> batch,
                           behaviour |-> behaviour])]

\* Faulty variant of RestAfter: a full batch is cut off whatever was taken.
RestAfterFullBatch(remaining_texts, taken) ==
    SubSeq(remaining_texts, max_batch_size + 1, Len(remaining_texts))

\* ai_translator.py:230  remaining_texts[current_batch_size:]
RestAfter(remaining_texts, taken) ==
    SubSeq(remaining_texts, taken + 1, Len(remaining_texts))

\* ai_translator.py:216-284  one pass of the while loop, or the return after it
translate_batch_step(f, behaviour) ==
    IF f.remaining_texts = << >> THEN [f EXCEPT !.result = Some(f.all_translations)]
    ELSE
      LET current_batch_size == calculate_batch_by_char_count(f.remaining_texts, f.provider)
          taken == Min(current_batch_size, Len(f.remaining_texts))
          batch == SubSeq(f.remaining_texts, 1, taken)
      IN [f EXCEPT
            !.batch_num = @ + 1,
            !.remaining_texts = RestAfter(@, taken),
            !.all_translations =
                @ \o (IF behaviour = "raise" THEN batch
                      ELSE Padded(translate_with_provider(batch, behaviour), batch)),
            !.dispatches =
                Append(@, [start |-> Len(f.texts) - Len(f.remaining_texts),
                           size |-> taken, batch |-> batch,
                           behaviour |-> behaviour])]

\* translator.py:26-50  translate_text: a blank text is returned as it is; the
\* backend's translation, or the text itself when the backend raises
translate_text(text, ok) ==
    IF Strip(text) = << >> THEN text
    ELSE IF ok THEN Translated(text) ELSE text

\* translator.py:112-113  batch_translate entered (no progress callback)
batch_translate_call(texts) ==
    [fn |-> "batch_translate", texts |-> texts, i |-> 0, translated |-> << >>,
     result |-> None]

\* translator.py:115-136  one pass of the loop, or the return after it
batch_translate_step(f, ok) ==
    IF f.i < Len(f.texts)
    THEN [f EXCEPT !.i = @ + 1,
                   !.translated = Append(@, translate_text(f.texts[f.i + 1], ok))]
    ELSE [f EXCEPT !.result = Some(f.translated)]

\* ======================================================= process_video_task
\* The locals of one task before it runs.
InitialTask(request) ==
    [pc |-> "queued", pending |-> << >>, lsub |-> 0, request |-> request,
     exc |-> None, whisper_error |-> None, percents |-> << >>,
     subtitle_path |-> None, subtitles |-> << >>, primary_lang |-> "",
     primary_subtitle_is_auto |-> FALSE, acquired_path |-> None,
     segments |-> << >>, keyframe_timestamps |-> << >>,
     original_subtitle_texts |-> << >>, translated_subtitle_texts |-> None,
     translated_subtitle_path |-> None, translate_calls |-> << >>,
     translation |-> None, frames_data |-> << >>,
     i |-> 0, ffmpeg_errors |-> 0, ai_outline |-> None, ai_provider_used |-> None]

\* app.py:173-182  the job entry process_video creates
NewJob(j) ==
    [job_id |-> j, status |-> PENDING, progress |-> 0, message |-> <<"job created">>,
     result |-> None, error |-> None, history |-> << >>, current_step |-> None]

At(j, label) == j \in DOMAIN task /\ task[j].pc = label /\ task[j].pending = << >>

\* A raise that reaches the except clause of process_video_task (app.py:649):
\* the exception carries its message and, in its traceback, where it was raised.
Raised(t, msg) == [t EXCEPT !.pc = "except", !.exc = Some([at |-> t.pc, message |-> msg])]

\* Continue at label after these log calls.
Then(t, label, logs) == [t EXCEPT !.pc = label, !.pending = logs]

\* The positions of process_video_task in program order.
StageOrder ==
    <<"queued", "get_video_info", "download_video", "transcribe", "download_subtitles",
      "optimize", "parse_srt", "keyframes", "texts", "translate_batch", "batch_translate",
      "write_translated", "extract", "compress", "outline", "finalize", "done">>

Position(label) == CHOOSE k \in 1..Len(StageOrder) : StageOrder[k] = label

\* How far the task got: where it is, or where it raised.
Reached(t) == IF t.exc # None THEN Position(t.exc[1].at) ELSE Position(t.pc)

\* app.py:164-199  process_video: the job entry, the "queued" event, add_task
process_video(j, requests) ==
    /\ j \notin DOMAIN jobs
    /\ \E request \in requests : task' = (j :> InitialTask(request)) @@ task
    /\ jobs' = (j :> Logged(NewJob(j), LogCall("queued", Some(PENDING), Some(0),
                                              Some(<<"job queued">>)))) @@ jobs
    /\ UNCHANGED <<files, processor_segments, snapshot, call>>

\* Faulty variant of StartTask: the "prepare" event passes no status.
StartTaskStaysPending(j) ==
    /\ At(j, "queued")
    /\ task' = [task EXCEPT ![j] = Then(@, "get_video_info",
          <<Log("prepare", 5, "task started"),
            Log("metadata", 10, "fetching video info")>>)]
    /\ UNCHANGED <<jobs, files, processor_segments, snapshot, call>>

\* app.py:207-223  the task starts: "prepare" (Processing, 5), "metadata" (10)
StartTask(j) ==
    /\ At(j, "queued")
    /\ task' = [task EXCEPT ![j] = Then(@, "get_video_info",
          <<LogCall("prepare", Some(PROCESSING), Some(5), Some(<<"task started">>)),
            Log("metadata", 10, "fetching video info")>>)]
    /\ UNCHANGED <<jobs, files, processor_segments, snapshot, call>>

\* app.py:224-239  youtube_service.get_video_info returns or raises
GetVideoInfo(j) ==
    /\ At(j, "get_video_info")
    /\ \E outcome \in {"ok", "raise"} :
         task' = [task EXCEPT ![j] =
            IF outcome = "raise" THEN Raised(@, "Failed to get video info")
            ELSE Then(@, "download_video",
                      <<Log("metadata", 12, "video info fetched"),
                        Log("download_video", 20, "downloading video")>>)]
    /\ UNCHANGED <<jobs, files, processor_segments, snapshot, call>>

\* app.py:242-250  video_download_progress: 20 + int(percent * 0.15)
DownloadProgress(percent) == 20 + (percent * 15) \div 100

\* Faulty variant of AfterDownload: the platform captions are fetched without
\* trying the transcription that was asked for.
AfterDownloadSkipsWhisper(t) ==
    Then(t, "download_subtitles",
         <<Log("download_video", 35, "video downloaded"),
           Log("fetch_subtitles", 38, "fetching subtitles"),
           Log("fetch_subtitles", 40, "downloading YouTube subtitles")>>)

\* app.py:267-279, 328-333  after the download: "fetch_subtitles" (38), then the
\* branch on use_ai_transcription and whisper_api_key
AfterDownload(t) ==
    IF t.request.use_ai_transcription /\ t.request.whisper_api_key # None
    THEN Then(t, "transcribe",
              <<Log("download_video", 35, "video downloaded"),
                Log("fetch_subtitles", 38, "fetching subtitles"),
                Log("ai_transcription", 40, "transcribing with Whisper")>>)
    ELSE Then(t, "download_subtitles",
              <<Log("download_video", 35, "video downloaded"),
                Log("fetch_subtitles", 38, "fetching subtitles"),
                Log("fetch_subtitles", 40, "downloading YouTube subtitles")>>)

\* app.py:241-263  youtube_service.download_video: a progress callback, the
\* return, or a raise (youtube.py:95-96)
DownloadVideo(j) ==
    /\ At(j, "download_video")
    /\ \/ \E percent \in 0..100 :
            /\ \E report \in Catalogue[task[j].request.url].hook :
                  IsPrefix(Append(task[j].percents, percent), report)
            /\ task' = [task EXCEPT ![j] =
                 [Then(@, "download_video",
                       <<LogCall("download_video", None, Some(DownloadProgress(percent)),
                                 Some(<<"downloading video", ToString(percent)>>))>>)
                  EXCEPT !.percents = Append(@, percent)]]
       \/ task' = [task EXCEPT ![j] = AfterDownload(@)]
       \/ task' = [task EXCEPT ![j] = Raised(@, "Failed to download video")]
    /\ UNCHANGED <<jobs, files, processor_segments, snapshot, call>>

\* Faulty variant of HandleException: the "failed" event passes progress 0.
HandleExceptionResetsProgress(j) ==
    /\ At(j, "except")
    /\ jobs' = [jobs EXCEPT ![j].error = Some(task[j].exc[1].message)]
    /\ task' = [task EXCEPT ![j] = Then(@, "done",
          <<LogCall("failed", Some(FAILED), Some(0),
                    Some(<<"processing failed", task[j].exc[1].message>>))>>)]
    /\ UNCHANGED <<files, processor_segments, snapshot, call>>

\* Faulty variant of HandleException: the error is recorded, no event is logged.
HandleExceptionSilently(j) ==
    /\ At(j, "except")
    /\ jobs' = [jobs EXCEPT ![j].error = Some(task[j].exc[1].message)]
    /\ task' = [task EXCEPT ![j] = Then(@, "done", << >>)]
    /\ UNCHANGED <<files, processor_segments, snapshot, call>>

\* Faulty variant of HandleException: the "failed" event before the error is written.
HandleExceptionStatusFirst(j) ==
    /\ At(j, "except")
    /\ jobs' = jobs
    /\ task' = [task EXCEPT ![j] = Then(@, "done",
          <<LogCall("failed", Some(FAILED), None,
                    Some(<<"processing failed", task[j].exc[1].message>>))>>)]
    /\ UNCHANGED <<files, processor_segments, snapshot, call>>

\* app.py:649-659  except Exception as e: jobs[job_id]["error"] = str(e), then
\* the "failed" event, which passes no progress
HandleException(j) ==
    /\ At(j, "except")
    /\ jobs' = [jobs EXCEPT ![j].error = Some(task[j].exc[1].message)]
    /\ task' = [task EXCEPT ![j] = Then(@, "done",
          <<LogCall("failed", Some(FAILED), None,
                    Some(<<"processing failed", task[j].exc[1].message>>))>>)]
    /\ UNCHANGED <<files, processor_segments, snapshot, call>>

\* open(path, 'w'): the file is created or replaced
WriteFile(fs, path, blocks) ==
    [p \in (DOMAIN fs) \cup {path} |-> IF p = path THEN blocks ELSE fs[p]]

\* app.py:355-360, 398-411  captions that are not flagged auto-generated:
\* "subtitle_selection" (50), "subtitle_optimize" skipped (50), "subtitle_parse" (58)
SkipOptimize ==
    <<Log("subtitle_selection", 50, "using subtitles"),
      Log("subtitle_optimize", 50, "manual subtitles, optimization skipped"),
      Log("subtitle_parse", 58, "parsing subtitles")>>

\* app.py:355-367  captions flagged auto-generated: "subtitle_optimize" (52)
EnterOptimize ==
    <<Log("subtitle_selection", 50, "using subtitles"),
      Log("subtitle_optimize", 52, "optimizing auto subtitles")>>

\* Faulty variant of AfterAcquire: the auto-generated flag is not consulted.
AfterAcquireAlwaysOptimizes(t, logs) == Then(t, "optimize", logs \o EnterOptimize)

\* app.py:361  if primary_subtitle_is_auto
AfterAcquire(t, logs) ==
    IF t.primary_subtitle_is_auto
    THEN Then(t, "optimize", logs \o EnterOptimize)
    ELSE Then(t, "parse_srt", logs \o SkipOptimize)

\* app.py:280-304  audio_transcription_service.transcribe_video returns the
\* transcript (primary_subtitle_is_auto stays False) or raises: "ai_transcription"
\* is logged with progress 38 and the platform captions are fetched
TranscribeVideo(j) ==
    /\ At(j, "transcribe")
    /\ LET v == task[j].request.url
           path == WhisperPath(v)
       IN \/ /\ files' = WriteFile(files, path, Catalogue[v].whisper)
             /\ task' = [task EXCEPT ![j] =
                  AfterAcquire([@ EXCEPT !.subtitle_path = Some(path),
                                         !.acquired_path = Some(path),
                                         !.primary_lang = Catalogue[v].lang,
                                         !.subtitles = <<<<Catalogue[v].lang, path>>>>],
                               <<Log("ai_transcription", 45, "Whisper subtitles ready")>>)]
          \/ /\ files' = files
             /\ task' = [task EXCEPT ![j] =
                  [Then(@, "download_subtitles",
                        <<LogCall("ai_transcription", None, Some(38),
                                  Some(<<"Whisper failed, using YouTube subtitles",
                                         "Transcription failed">>))>>)
                   EXCEPT !.whisper_error = Some("Transcription failed")]]
    /\ UNCHANGED <<jobs, processor_segments, snapshot, call>>

\* app.py:343  the message that names the AI subtitle option of the UI
EnableAIMessage == "No subtitles available for this video. Try enabling 'AI subtitles' option."

\* app.py:315, 343  the error raised when download_subtitles returns no captions
NoSubtitlesError(t) ==
    IF t.whisper_error # None
    THEN "AI transcription failed and no YouTube subtitles available: Transcription failed"
    ELSE EnableAIMessage

\* app.py:306-326, 334-354  youtube_service.download_subtitles raises
\* (youtube.py:327-328), returns no captions, or returns the caption file of the
\* video with its auto-generated flag; "fetch_subtitles" (47)
DownloadSubtitles(j) ==
    /\ At(j, "download_subtitles")
    /\ LET v == task[j].request.url
           path == CaptionPath(v)
       IN \/ /\ files' = files
             /\ task' = [task EXCEPT ![j] = Raised(@, "Failed to download subtitles")]
          \/ /\ Catalogue[v].captions = "none"
             /\ files' = files
             /\ task' = [task EXCEPT ![j] = Raised(@, NoSubtitlesError(@))]
          \/ /\ Catalogue[v].captions # "none"
             /\ files' = WriteFile(files, path, Catalogue[v].blocks)
             /\ task' = [task EXCEPT ![j] =
                  AfterAcquire([@ EXCEPT !.subtitle_path = Some(path),
                                         !.acquired_path = Some(path),
                                         !.primary_lang = Catalogue[v].lang,
                                         !.subtitles = <<<<Catalogue[v].lang, path>>>>,
                                         !.primary_subtitle_is_auto =
                                             (Catalogue[v].captions = "auto")],
                               <<Log("fetch_subtitles", 47, "subtitles downloaded")>>)]
    /\ UNCHANGED <<jobs, processor_segments, snapshot, call>>

\* subtitle_optimizer.py:257-308  _parse_srt: every block, its text lines joined
optimizer_parse_srt(blocks) ==
    [k \in 1..Len(blocks) |->
        Block(blocks[k].start_time, blocks[k].end_time, Strip(blocks[k].text))]

\* Faulty variant of AdoptOptimized: the threshold itself is accepted.
AdoptAtThreshold(stats) == stats.reduction_percentage >= 3000

\* app.py:373  if stats['reduction_percentage'] > 30 (hundredths of a percent)
AdoptOptimized(stats) == stats.reduction_percentage > 3000

\* app.py:376  subtitles[primary_lang] = optimized_path
WithPath(subtitles, lang, path) ==
    [k \in 1..Len(subtitles) |->
        IF subtitles[k][1] = lang THEN <<lang, path>> ELSE subtitles[k]]

\* app.py:368-397  optimize_srt_file writes stem.optimized.srt, then
\* get_optimization_stats measures; the optimized file is adopted ("subtitle_optimize"
\* 55) or not (53); either call may raise, which is caught (52)
OptimizeSubtitles(j) ==
    /\ At(j, "optimize")
    /\ LET path == task[j].subtitle_path[1]
           parsed == optimizer_parse_srt(files[path])
           optimized_path == OptimizedPath(path)
           written == WriteFile(files, optimized_path,
                                optimize_srt_file(parsed, task[j].primary_lang))
           stats == get_optimization_stats(parsed)
           failed == <<Log("subtitle_optimize", 52, "optimization failed, using original"),
                       Log("subtitle_parse", 58, "parsing subtitles")>>
       IN \/ /\ files' = files
             /\ task' = [task EXCEPT ![j] = Then(@, "parse_srt", failed)]
          \/ /\ files' = written
             /\ task' = [task EXCEPT ![j] = Then(@, "parse_srt", failed)]
          \/ /\ files' = written
             /\ task' = [task EXCEPT ![j] =
                  IF AdoptOptimized(stats)
                  THEN Then([@ EXCEPT !.subtitle_path = Some(optimized_path),
                                      !.subtitles = WithPath(@, task[j].primary_lang,
                                                             optimized_path)],
                            "parse_srt",
                            <<LogCall("subtitle_optimize", None, Some(55),
                                      Some(<<"subtitles optimized",
                                             ToString(stats.reduction_percentage)>>)),
                              Log("subtitle_parse", 58, "parsing subtitles")>>)
                  ELSE Then(@, "parse_srt",
                            <<Log("subtitle_optimize", 53, "little change, original kept"),
                              Log("subtitle_parse", 58, "parsing subtitles")>>)]
    /\ UNCHANGED <<jobs, processor_segments, snapshot, call>>

\* app.py:412-418  segments = subtitle_processor.parse_srt(subtitle_path): the
\* list is returned and also kept in the shared processor (subtitle.py:73)
ParseSrt(j) ==
    /\ At(j, "parse_srt")
    /\ LET segments == parse_srt(files[task[j].subtitle_path[1]]) IN
         /\ processor_segments' = segments
         /\ task' = [task EXCEPT ![j] =
              [Then(@, "keyframes",
                    <<LogCall("subtitle_parse", None, Some(62),
                              Some(<<"subtitles parsed", ToString(Len(segments))>>))>>)
               EXCEPT !.segments = segments]]
    /\ UNCHANGED <<jobs, files, snapshot, call>>

\* app.py:420-429  subtitle_processor.get_keyframe_timestamps reads the
\* processor's segments (subtitle.py:99-115); "keyframe_selection" (65)
GetKeyframeTimestamps(j) ==
    /\ At(j, "keyframes")
    /\ LET ts == get_keyframe_timestamps(processor_segments,
                                         task[j].request.screenshot_offset,
                                         task[j].request.screenshot_position)
       IN task' = [task EXCEPT ![j] =
            [Then(@, "texts",
                  <<LogCall("keyframe_selection", None, Some(65),
                            Some(<<"keyframes selected", ToString(Len(ts))>>))>>)
             EXCEPT !.keyframe_timestamps = ts, !.i = 0]]
    /\ UNCHANGED <<jobs, files, processor_segments, snapshot, call>>

\* app.py:438-463, 505-518  after the subtitle texts: the branch on translate_to,
\* then on generate_outline and ai_provider
AfterTexts(t) ==
    IF t.request.translate_to # None
    THEN IF t.request.generate_outline /\ t.request.ai_provider # None
         THEN [Then(t, "translate_batch",
                    <<Log("translate", 68, "translating subtitles"),
                      Log("translate", 69, "translating with the AI provider")>>)
               EXCEPT !.translate_calls = Append(@, "ai_translator.translate_batch"),
                      !.translation =
                          Some(translate_batch_call(t.original_subtitle_texts,
                                                    t.request.ai_provider[1]))]
         ELSE [Then(t, "batch_translate", <<Log("translate", 68, "translating subtitles")>>)
               EXCEPT !.i = 0, !.translated_subtitle_texts = Some(<< >>),
                      !.translate_calls = Append(@, "translator.batch_translate")]
    ELSE [Then(t, "extract",
               <<Log("translate", 72, "translation not requested"),
                 Log("frame_capture", 75, "capturing frames")>>)
          EXCEPT !.i = 0]

\* app.py:431-434  original_subtitle_texts: one get_subtitle_at_time per
\* keyframe, each reading the processor's segments as they are at that moment
GetSubtitleAtTime(j) ==
    /\ At(j, "texts")
    /\ task' = [task EXCEPT ![j] =
         IF @.i < Len(@.keyframe_timestamps)
         THEN [@ EXCEPT !.i = @ + 1,
                        !.original_subtitle_texts =
                            Append(@, get_subtitle_at_time(processor_segments,
                                          task[j].keyframe_timestamps[task[j].i + 1]))]
         ELSE AfterTexts(@)]
    /\ UNCHANGED <<jobs, files, processor_segments, snapshot, call>>

\* app.py:464-472  ai_translator.translate_batch, one pass of its loop per
\* step, each dispatch free to behave in any way; the call catches every error
\* of a dispatch and nothing else in it raises, so it always returns and the
\* except clause of app.py:473-480 is never entered
TranslateBatch(j) ==
    /\ At(j, "translate_batch")
    /\ \E behaviour \in BackendBehaviours :
         LET f == translate_batch_step(task[j].translation[1], behaviour) IN
         task' = [task EXCEPT ![j] =
            IF f.result # None
            THEN [Then(@, "write_translated", << >>)
                  EXCEPT !.translation = Some(f),
                         !.translated_subtitle_texts = f.result]
            ELSE [@ EXCEPT !.translation = Some(f)]]
    /\ UNCHANGED <<jobs, files, processor_segments, snapshot, call>>

\* app.py:446-454  translation_progress: 68 + int(percent * 0.04), with
\* percent = ((i + 1) / total) * 100 (translator.py:126)
TranslationProgress(done, total) == 68 + (done * 4) \div total

\* app.py:482-487, translator.py:91-136  batch_translate, one text per step: a
\* blank text is kept and reports nothing; translate_text returns the
\* translation, or the text itself when the backend fails (translator.py:48-50),
\* and the progress callback runs
BatchTranslate(j) ==
    /\ At(j, "batch_translate")
    /\ LET texts == task[j].original_subtitle_texts
           i == task[j].i
       IN IF i < Len(texts)
          THEN \E ok \in BOOLEAN :
                 task' = [task EXCEPT ![j] =
                    IF Strip(texts[i + 1]) = << >>
                    THEN [@ EXCEPT !.i = i + 1,
                                   !.translated_subtitle_texts =
                                       Some(Append(@[1], texts[i + 1]))]
                    ELSE [Then(@, "batch_translate",
                               <<LogCall("translate", None,
                                         Some(TranslationProgress(i + 1, Len(texts))),
                                         Some(<<"translating",
                                                ToString(((i + 1) * 100) \div Len(texts))>>))>>)
                          EXCEPT !.i = i + 1,
                                 !.translated_subtitle_texts =
                                     Some(Append(@[1], translate_text(texts[i + 1], ok)))]]
          ELSE task' = [task EXCEPT ![j] = Then(@, "write_translated", << >>)]
    /\ UNCHANGED <<jobs, files, processor_segments, snapshot, call>>

TranslatedPath(v) == <<v, "translated">>

\* app.py:494  zip(segments, translated_subtitle_texts)
Zipped(segments, texts) ==
    [k \in 1..Min(Len(segments), Len(texts)) |->
        Block(segments[k].start_time, segments[k].end_time, texts[k])]

\* app.py:489-518  the translated caption file is written (the open may raise);
\* "translate" (72), "frame_capture" (75)
WriteTranslatedSrt(j) ==
    /\ At(j, "write_translated")
    /\ LET path == TranslatedPath(task[j].request.url) IN
       \/ /\ files' = WriteFile(files, path,
                                Zipped(task[j].segments, task[j].translated_subtitle_texts[1]))
          /\ task' = [task EXCEPT ![j] =
               [Then(@, "extract",
                     <<Log("translate", 72, "subtitles translated"),
                       Log("frame_capture", 75, "capturing frames")>>)
                EXCEPT !.translated_subtitle_path = Some(path), !.i = 0]]
       \/ /\ files' = files
          /\ task' = [task EXCEPT ![j] = Raised(@, "Failed to write translated subtitles")]
    /\ UNCHANGED <<jobs, processor_segments, snapshot, call>>

\* app.py:521-529  frame_extraction_progress: 75 + int(percent * 0.10), with
\* percent = ((i + 1) / total_frames) * 100 (frame_extractor.py:113)
ExtractionProgress(done, total) == 75 + (done * 10) \div total

\* frame_extractor.py:158-161  frame['subtitle'] = subtitles[i], i the position
\* of the frame in the list of captured frames
WithSubtitles(frames, subtitles) ==
    [k \in 1..Len(frames) |->
        IF k <= Len(subtitles) THEN [frames[k] EXCEPT !.subtitle = Some(subtitles[k])]
        ELSE frames[k]]

\* frame_extractor.py:103-109  the frame captured at position i (0-based)
NewFrame(i, timestamp) ==
    [index |-> i + 1, timestamp |-> timestamp, subtitle |-> None,
     subtitle_translated |-> None]

\* app.py:530-550, frame_extractor.py:86-163  extract_frames_with_subtitles, one
\* timestamp per step: the frame is captured and progress reported, ffmpeg fails
\* and the timestamp is skipped (frame_extractor.py:116-119), or another error
\* propagates; after the loop the subtitles are attached; "frame_capture" (85),
\* "frame_optimize" (86)
ExtractFrames(j) ==
    /\ At(j, "extract")
    /\ LET timestamps == task[j].keyframe_timestamps
           i == task[j].i
       IN IF Len(timestamps) # Len(task[j].original_subtitle_texts)
          THEN task' = [task EXCEPT ![j] =
                 Raised(@, "Timestamps and subtitles lists must have same length")]
          ELSE IF i < Len(timestamps)
          THEN \/ task' = [task EXCEPT ![j] =
                    [Then(@, "extract",
                          <<LogCall("frame_capture", None,
                                    Some(ExtractionProgress(i + 1, Len(timestamps))),
                                    Some(<<"capturing frames",
                                           ToString(((i + 1) * 100) \div Len(timestamps))>>))>>)
                     EXCEPT !.i = i + 1,
                            !.frames_data = Append(@, NewFrame(i, timestamps[i + 1]))]]
               \/ /\ task[j].ffmpeg_errors < MaxFfmpegErrors
                  /\ task' = [task EXCEPT ![j].i = i + 1, ![j].ffmpeg_errors = @ + 1]
               \/ task' = [task EXCEPT ![j] = Raised(@, "Failed to read the captured frame")]
          ELSE task' = [task EXCEPT ![j] =
                 [Then(@, "compress",
                       <<LogCall("frame_capture", None, Some(85),
                                 Some(<<"frames captured", ToString(Len(@.frames_data))>>)),
                         Log("frame_optimize", 86, "compressing frames")>>)
                  EXCEPT !.i = 0,
                         !.frames_data = WithSubtitles(@, task[j].original_subtitle_texts)]]
    /\ UNCHANGED <<jobs, files, processor_segments, snapshot, call>>

\* app.py:558-560  86 + int(percent * 0.04), percent = ((i + 1) / total_frames) * 100
CompressionProgress(done, total) == 86 + (done * 4) \div total

\* Faulty variant of AfterFrames: the "finalize" event is logged before the
\* outline stage reports.
AfterFramesFinalizeFirst(t) ==
    Then(t, "finalize",
         <<Log("frame_optimize", 90, "frames optimized"),
           Log("finalize", 98, "assembling result"),
           Log("ai_outline", 92, "outline not requested")>>)

\* app.py:573-581, 609-622  after the frames: the branch on generate_outline and
\* ai_provider; "frame_optimize" (90), "ai_outline" (92)
AfterFrames(t) ==
    IF t.request.generate_outline /\ t.request.ai_provider # None
    THEN Then(t, "outline",
              <<Log("frame_optimize", 90, "frames optimized"),
                Log("ai_outline", 92, "generating outline")>>)
    ELSE Then(t, "finalize",
              <<Log("frame_optimize", 90, "frames optimized"),
                Log("ai_outline", 92, "outline not requested"),
                Log("finalize", 98, "assembling result")>>)

\* app.py:554-555  the translated text attached to the frame at list position i
WithTranslation(frame, translated, i) ==
    IF translated # None /\ translated[1] # << >> /\ i < Len(translated[1])
    THEN [frame EXCEPT !.subtitle_translated = Some(translated[1][i + 1])]
    ELSE frame

\* app.py:551-566  the loop over frames_data, one frame per step: compress_frame
\* returns or raises (frame_extractor.py:196-197); progress every 5 frames and
\* on the last one
CompressFrame(j) ==
    /\ At(j, "compress")
    /\ LET frames == task[j].frames_data
           i == task[j].i
           total_frames == Len(frames)
       IN IF i < total_frames
          THEN \/ task' = [task EXCEPT ![j] =
                    [Then(@, "compress",
                          IF (i + 1) % 5 = 0 \/ i + 1 = total_frames
                          THEN <<LogCall("frame_optimize", None,
                                         Some(CompressionProgress(i + 1, total_frames)),
                                         Some(<<"compressing frames", ToString(i + 1)>>))>>
                          ELSE << >>)
                     EXCEPT !.i = i + 1,
                            !.frames_data[i + 1] =
                                WithTranslation(@, task[j].translated_subtitle_texts, i)]]
               \/ task' = [task EXCEPT ![j] = Raised(@, "Failed to compress image")]
          ELSE task' = [task EXCEPT ![j] = AfterFrames(@)]
    /\ UNCHANGED <<jobs, files, processor_segments, snapshot, call>>

\* Faulty variant of GenerateOutline: the error of the outline call is not caught.
GenerateOutlineUncaught(j) ==
    /\ At(j, "outline")
    /\ \/ task' = [task EXCEPT ![j] =
            [Then(@, "finalize",
                  <<Log("ai_outline", 95, "outline generated"),
                    Log("finalize", 98, "assembling result")>>)
             EXCEPT !.ai_outline = Some("outline"),
                    !.ai_provider_used = task[j].request.ai_provider]]
       \/ task' = [task EXCEPT ![j] = Raised(@, "Failed to generate outline")]
    /\ UNCHANGED <<jobs, files, processor_segments, snapshot, call>>

\* app.py:582-608, 616-622  ai_outline_service.generate_outline returns the
\* outline or raises, which is caught; "ai_outline" (95), "finalize" (98)
GenerateOutline(j) ==
    /\ At(j, "outline")
    /\ \/ task' = [task EXCEPT ![j] =
            [Then(@, "finalize",
                  <<Log("ai_outline", 95, "outline generated"),
                    Log("finalize", 98, "assembling result")>>)
             EXCEPT !.ai_outline = Some("outline"),
                    !.ai_provider_used = task[j].request.ai_provider]]
       \/ task' = [task EXCEPT ![j] =
            Then(@, "finalize",
                 <<Log("ai_outline", 95, "outline failed, skipped"),
                   Log("finalize", 98, "assembling result")>>)]
    /\ UNCHANGED <<jobs, files, processor_segments, snapshot, call>>

\* app.py:623-633  ProcessVideoResponse (processing_time left out)
Result(t) ==
    [video_id |-> t.request.url, total_frames |-> Len(t.frames_data),
     frames |-> t.frames_data, subtitles |-> t.subtitles,
     ai_outline |-> t.ai_outline, ai_provider |-> t.ai_provider_used,
     translated_subtitle |-> t.translated_subtitle_path]

\* Faulty variant of Finalize: the "complete" event without the result.
FinalizeWithoutResult(j) ==
    /\ At(j, "finalize")
    /\ jobs' = jobs
    /\ task' = [task EXCEPT ![j] = Then(@, "done",
          <<LogCall("complete", Some(COMPLETED), Some(100), Some(<<"processing complete">>))>>)]
    /\ UNCHANGED <<files, processor_segments, snapshot, call>>

\* app.py:623-647  jobs[job_id]["result"] = result_dict, then the "complete"
\* event (Completed, 100)
Finalize(j) ==
    /\ At(j, "finalize")
    /\ jobs' = [jobs EXCEPT ![j].result = Some(Result(task[j]))]
    /\ task' = [task EXCEPT ![j] = Then(@, "done",
          <<LogCall("complete", Some(COMPLETED), Some(100), Some(<<"processing complete">>))>>)]
    /\ UNCHANGED <<files, processor_segments, snapshot, call>>

\* app.py:663-671  get_job_status: the job record as it is now
get_job_status(j) ==
    /\ j \in DOMAIN jobs
    /\ snapshot' = Some(jobs[j])
    /\ UNCHANGED <<jobs, task, files, processor_segments, call>>

\* ------------------------------------------------------------ specifications
\* The stages of process_video_task between its log calls.
Stage(j) ==
    \/ StartTask(j)
    \/ GetVideoInfo(j)
    \/ DownloadVideo(j)
    \/ TranscribeVideo(j)
    \/ DownloadSubtitles(j)
    \/ OptimizeSubtitles(j)
    \/ ParseSrt(j)
    \/ GetKeyframeTimestamps(j)
    \/ GetSubtitleAtTime(j)
    \/ TranslateBatch(j)
    \/ BatchTranslate(j)
    \/ WriteTranslatedSrt(j)
    \/ ExtractFrames(j)
    \/ CompressFrame(j)
    \/ GenerateOutline(j)
    \/ Finalize(j)
    \/ HandleException(j)

\* One step of the background task of job j.
TaskStep(j) == log_job_progress(j) \/ Stage(j)

Init ==
    /\ jobs = << >>
    /\ task = << >>
    /\ files = << >>
    /\ processor_segments = << >>
    /\ snapshot = None
    /\ call = None

\* One job, any request, every collaborator free to fail.
Next == process_video(1, Requests) \/ TaskStep(1)

Spec == Init /\ [][Next]_vars

\* The worker thread keeps running the task until it returns: every call of a
\* collaborator returns or raises.
FairSpec == Init /\ [][Next]_vars /\ WF_vars(TaskStep(1))

\* The stages a plain request passes through when the video has captions
\* that are not flagged auto-generated.
PlainStage(j) ==
    \/ StartTask(j)
    \/ GetVideoInfo(j)
    \/ DownloadVideo(j)
    \/ DownloadSubtitles(j)
    \/ ParseSrt(j)
    \/ GetKeyframeTimestamps(j)
    \/ GetSubtitleAtTime(j)
    \/ ExtractFrames(j)
    \/ CompressFrame(j)
    \/ Finalize(j)
    \/ HandleException(j)

\* One job polled while it runs: the writes of log_job_progress one at a time.
PollRequests == {PlainRequest("first")}

NextPoll ==
    \/ process_video(1, PollRequests)
    \/ LogJobProgress(1)
    \/ PlainStage(1)
    \/ get_job_status(1)

SpecPoll == Init /\ [][NextPoll]_vars

\* Two jobs for two videos, their tasks in two worker threads.
TwoJobs == {1, 2}
RequestOf(j) == IF j = 1 THEN PlainRequest("first") ELSE PlainRequest("second")

NextTwo ==
    \E j \in TwoJobs :
        \/ process_video(j, {RequestOf(j)})
        \/ log_job_progress(j)
        \/ PlainStage(j)

SpecTwo == Init /\ [][NextTwo]_vars

\* ---- the translators called on their own
T_blank == <<" ">>
LongText == [k \in 1..LongTextLen |-> "a"]

\* More texts than one batch may hold.
SixTexts == [k \in 1..(max_batch_size + 1) |-> T_a]

\* A text that alone exceeds a provider's target.
OverTarget(target) == [k \in 1..(target + 1) |-> "a"]

TextLists(pool) ==
    UNION {[1..n -> pool] : n \in 0..MaxTexts} \cup {SixTexts}

\* The service instances are there, nothing else runs.
Idle ==
    /\ jobs = << >>
    /\ task = << >>
    /\ files = << >>
    /\ processor_segments = << >>
    /\ snapshot = None

InCall(fn) == call # None /\ call[1].fn = fn /\ call[1].result = None

TranslateBatchCall ==
    /\ InCall("translate_batch")
    /\ \E behaviour \in BackendBehaviours :
          call' = Some(translate_batch_step(call[1], behaviour))
    /\ UNCHANGED <<jobs, task, files, processor_segments, snapshot>>

BatchTranslateCall ==
    /\ InCall("batch_translate")
    /\ \E ok \in BOOLEAN : call' = Some(batch_translate_step(call[1], ok))
    /\ UNCHANGED <<jobs, task, files, processor_segments, snapshot>>

InitTranslate ==
    /\ Idle
    /\ \/ \E provider \in {"openai", "ollama"} :
             \* texts that are short, near the provider's target, above it
             \E texts \in TextLists({T_a, LongText,
                                     OverTarget(get_target_char_count(provider))}) :
                call = Some(translate_batch_call(texts, provider))
       \/ \E texts \in TextLists({T_a, T_blank, LongText}) :
             call = Some(batch_translate_call(texts))

NextTranslate == TranslateBatchCall \/ BatchTranslateCall

\* One call of a translator, any list of texts, any behaviour of the backend.
SpecTranslate == InitTranslate /\ [][NextTranslate]_vars

\* The call is not suspended: a dispatch returns or raises, and the loop goes on.
FairSpecTranslate == SpecTranslate /\ WF_vars(NextTranslate)

\* ---- the merge engine called on its own
T_empty == << >>
T_a_dot_a == <<"a", ".", " ", "a">>
T_many == <<"a", ".", "b", ".", "c">>

\* Fragment texts with sentence punctuation: none, one boundary at the end, a
\* boundary with text after it, several boundaries.
PunctTexts == {T_empty, T_a, T_b_dot, T_a_dot_a, T_many}

Plain(n) == [k \in 1..n |-> "a"]

\* Fragment texts without punctuation, of lengths around the thresholds of
\* merge_config, one of them ending in a sentence-final particle.
PlainTexts == {Plain(1), Plain(min_chars - 1), Plain(max_chars - 30),
               Append(Plain(min_chars), "k")}

\* When fragment k is shown: one after the other, with pauses longer than
\* max_time_gap, or each still shown while the next one starts (the rolling
\* captions of a platform).
Layouts == {"contiguous", "gapped", "overlapping"}

Timed(texts, layout) ==
    [k \in 1..Len(texts) |->
        IF layout = "contiguous" THEN Block(1000 * (k - 1), 1000 * k, texts[k])
        ELSE IF layout = "gapped" THEN Block(3000 * (k - 1), 3000 * (k - 1) + 1000, texts[k])
        ELSE Block(1000 * (k - 1), 1000 * k + 500, texts[k])]

FragmentLists(pool) ==
    {Timed(texts, layout) :
        texts \in UNION {[1..n -> pool] : n \in 0..MaxFragments}, layout \in Layouts}

merge_call(fn, segments, language) ==
    [fn |-> fn, segments |-> segments, language |-> language, result |-> None]

\* subtitle_optimizer.py:405-480  _merge_segments returns
MergeSegmentsCall ==
    /\ InCall("merge_segments")
    /\ call' = Some([call[1] EXCEPT !.result = Some(merge_segments(call[1].segments))])
    /\ UNCHANGED <<jobs, task, files, processor_segments, snapshot>>

\* subtitle_optimizer.py:331-403  _smart_merge returns
SmartMergeCall ==
    /\ InCall("smart_merge")
    /\ call' = Some([call[1] EXCEPT
                       !.result = Some(smart_merge(call[1].segments, call[1].language))])
    /\ UNCHANGED <<jobs, task, files, processor_segments, snapshot>>

InitMerge ==
    /\ Idle
    /\ \/ \E segments \in FragmentLists(PunctTexts) :
             call = Some(merge_call("merge_segments", segments, ""))
       \/ \E segments \in FragmentLists(PlainTexts), language \in {"", "ja"} :
             call = Some(merge_call("smart_merge", segments, language))

NextMerge == MergeSegmentsCall \/ SmartMergeCall

\* One call of a merge path, any list of fragments.
SpecMerge == InitMerge /\ [][NextMerge]_vars

\* ---- the keyframe selector called on its own
\* Offsets in milliseconds: before the start of the video, a little earlier,
\* none, a little later.
Offsets == {-2000, -250, 0, 250}

\* The three policies of the API and a value that is none of them.
Positions == {"start", "middle", "end", "center"}

keyframes_call(offset, position) ==
    [fn |-> "get_keyframe_timestamps", offset |-> offset, position |-> position,
     result |-> None]

\* subtitle.py:90-115  get_keyframe_timestamps returns, having read the
\* segments the processor holds
GetKeyframeTimestampsCall ==
    /\ InCall("get_keyframe_timestamps")
    /\ call' = Some([call[1] EXCEPT
                       !.result = Some(get_keyframe_timestamps(processor_segments,
                                                               call[1].offset,
                                                               call[1].position))])
    /\ UNCHANGED <<jobs, task, files, processor_segments, snapshot>>

\* The processor has parsed a caption file (subtitle.py:73).
InitKeyframes ==
    /\ jobs = << >>
    /\ task = << >>
    /\ files = << >>
    /\ snapshot = None
    /\ \E blocks \in FragmentLists({T_a, T_b_dot}) : processor_segments = parse_srt(blocks)
    /\ \E offset \in Offsets, position \in Positions :
          call = Some(keyframes_call(offset, position))

NextKeyframes == GetKeyframeTimestampsCall

\* One call of the keyframe selector, any segments, offset and policy.
SpecKeyframes == InitKeyframes /\ [][NextKeyframes]_vars

\* ---- the text lookup called on its own
\* Times in milliseconds around the borders of the segments of every layout.
Times == {0, 500, 1000, 1250, 1500, 2000, 2500, 3000, 3500, 4000, 7000, 8000}

\* A caption file the optimizer wrote, with its zero-duration last segment.
WithOverflow(blocks) ==
    IF blocks = << >> THEN blocks
    ELSE Append(blocks, OverflowSegment(Last(blocks), T_c_dot))

\* subtitle.py:117-129  get_subtitle_at_time returns
GetSubtitleAtTimeCall ==
    /\ InCall("get_subtitle_at_time")
    /\ call' = Some([call[1] EXCEPT
                       !.result = Some(get_subtitle_at_time(processor_segments,
                                                            call[1].timestamp))])
    /\ UNCHANGED <<jobs, task, files, processor_segments, snapshot>>

\* app.py:431-434  original_subtitle_texts: get_subtitle_at_time for each
\* timestamp get_keyframe_timestamps returned
OriginalSubtitleTextsCall ==
    /\ call # None
    /\ call[1].fn = "get_keyframe_timestamps"
    /\ call[1].result # None
    /\ LET keyframe_timestamps == call[1].result[1] IN
       call' = Some([fn |-> "original_subtitle_texts",
                     offset |-> call[1].offset, position |-> call[1].position,
                     keyframe_timestamps |-> keyframe_timestamps,
                     result |-> Some([k \in 1..Len(keyframe_timestamps) |->
                                        get_subtitle_at_time(processor_segments,
                                                             keyframe_timestamps[k])])])
    /\ UNCHANGED <<jobs, task, files, processor_segments, snapshot>>

\* The processor has parsed a caption file (subtitle.py:73).
InitTextAt ==
    /\ jobs = << >>
    /\ task = << >>
    /\ files = << >>
    /\ snapshot = None
    /\ \E blocks \in FragmentLists({T_a, T_b_dot}) :
          \/ processor_segments = parse_srt(blocks)
          \/ processor_segments = parse_srt(WithOverflow(blocks))
    /\ \/ \E t \in Times :
             call = Some([fn |-> "get_subtitle_at_time", timestamp |-> 2 * t,
                          result |-> None])
       \/ \E offset \in Offsets, position \in Positions :
             call = Some(keyframes_call(offset, position))

NextTextAt ==
    GetSubtitleAtTimeCall \/ GetKeyframeTimestampsCall \/ OriginalSubtitleTextsCall

\* The text at any time, and the texts the task pairs with the keyframes.
SpecTextAt == InitTextAt /\ [][NextTextAt]_vars

\* ---- the optimizer called on its own
\* A caption file of n fragments of which p have punctuation (a sentence ending
\* or a pause mark), the punctuated ones first or last.
Captions(n, p, punctuated, first) ==
    [k \in 1..n |->
        Block(1000 * (k - 1), 1000 * k,
              IF (first /\ k <= p) \/ (~first /\ k > n - p) THEN punctuated ELSE T_a)]

CaptionFiles ==
    UNION {{Captions(n, p, punctuated, first) :
               p \in 0..n, punctuated \in {T_b_dot, <<"a", ",">>}, first \in BOOLEAN} :
           n \in 0..MaxCaptions}
    \cup FragmentLists(PunctTexts) \cup FragmentLists(PlainTexts)

\* subtitle_optimizer.py:218-234  optimize_srt_file returns, the blocks of the
\* file it wrote are the result
OptimizeSrtFileCall ==
    /\ InCall("optimize_srt_file")
    /\ call' = Some([call[1] EXCEPT
                       !.has_punctuation = Some(detect_punctuation(call[1].segments)),
                       !.result = Some(optimize_srt_file(call[1].segments,
                                                         call[1].language))])
    /\ UNCHANGED <<jobs, task, files, processor_segments, snapshot>>

\* app.py:368-369  after optimize_srt_file, get_optimization_stats on the same
\* file (subtitle_optimizer.py:490-499)
GetOptimizationStatsCall ==
    /\ call # None
    /\ call[1].fn = "optimize_srt_file"
    /\ call[1].result # None
    /\ call[1].stats = None
    /\ call' = Some([call[1] EXCEPT
                       !.stats = Some(get_optimization_stats(call[1].segments))])
    /\ UNCHANGED <<jobs, task, files, processor_segments, snapshot>>

InitOptimize ==
    /\ Idle
    /\ \E segments \in CaptionFiles, language \in {"", "ja"} :
          \* optimize_srt_file entered; has_punctuation is the detector's answer
          call = Some([fn |-> "optimize_srt_file", segments |-> segments,
                       language |-> language, has_punctuation |-> None,
                       stats |-> None, result |-> None])

NextOptimize == OptimizeSrtFileCall \/ GetOptimizationStatsCall

\* The two calls the task makes to the optimizer, any caption file.
SpecOptimize == InitOptimize /\ [][NextOptimize]_vars

\* ================================================================== claims
Terminal(job) == job.status \in {COMPLETED, FAILED}
Finished(j) == j \in DOMAIN task /\ task[j].pc = "done" /\ task[j].pending = << >>
LastEvent(job) == job.history[Len(job.history)]
Statuses(job) == {job.history[k].status : k \in 1..Len(job.history)}
Messages(job) == {job.history[k].message : k \in 1..Len(job.history)}

\* ---- C1
StatusStep(j) ==
    IF j \in DOMAIN jobs
    THEN /\ j \in DOMAIN jobs'
         /\ \/ jobs'[j].status = jobs[j].status
            \/ jobs[j].status = PENDING /\ jobs'[j].status = PROCESSING
            \/ jobs[j].status = PROCESSING /\ jobs'[j].status \in {COMPLETED, FAILED}
         /\ (jobs[j].status = PENDING /\ jobs'[j] # jobs[j]) => jobs'[j].status = PROCESSING
         /\ Terminal(jobs[j]) => jobs'[j] = jobs[j]
    ELSE j \in DOMAIN jobs' => jobs'[j].status = PENDING

C2_TerminalFields ==
    \A j \in DOMAIN jobs :
        /\ jobs[j].status = COMPLETED => jobs[j].result # None /\ jobs[j].error = None
        /\ jobs[j].status = FAILED => jobs[j].error # None /\ jobs[j].result = None

\* A job Completed after translation and an outline, its result in place.
C2_Witness ==
    /\ 1 \in DOMAIN jobs
    /\ jobs[1].status = COMPLETED
    /\ jobs[1].result # None
    /\ jobs[1].result[1].translated_subtitle # None
    /\ jobs[1].result[1].ai_outline # None
    /\ jobs[1].error = None

\* ---- C3
\* The event the except clause logs, as the claim describes it.
FailedEvent(job, message) ==
    [status |-> FAILED, step |-> "failed", progress |-> job.progress,
     message |-> <<"processing failed", message>>]

\* The last HISTORY_MAX_ENTRIES entries of a history.
Newest(history) ==
    SubSeq(history, Max(1, Len(history) - HISTORY_MAX_ENTRIES + 1), Len(history))

\* A task that raised ends Failed with the message of the exception as its error.
FailureRecorded ==
    \A j \in DOMAIN task :
        (Finished(j) /\ task[j].exc # None) =>
            /\ jobs[j].status = FAILED
            /\ jobs[j].error = Some(task[j].exc[1].message)
            /\ LastEvent(jobs[j]).status = FAILED
            /\ LastEvent(jobs[j]).progress # 0

\* The step that makes job j Failed keeps every event of the history.
FailureKeepsHistory(j) ==
    (j \in DOMAIN jobs /\ jobs[j].status # FAILED /\ jobs'[j].status = FAILED) =>
        /\ jobs'[j].history =
              Append(jobs[j].history, FailedEvent(jobs[j], task[j].exc[1].message))
        /\ jobs[j].progress # 0

\* The step that makes job j Failed keeps the newest events of the history.
FailureKeepsNewest(j) ==
    (j \in DOMAIN jobs /\ jobs[j].status # FAILED /\ jobs'[j].status = FAILED) =>
        /\ jobs'[j].history =
              Newest(Append(jobs[j].history, FailedEvent(jobs[j], task[j].exc[1].message)))
        /\ jobs[j].progress # 0

\* C3 as stated: when a stage raises an exception that is not handled locally
\* the job ends Failed with the exception's message as its error, the history
\* is the history before the failure, every event unchanged, followed by one
\* Failed event, and that event carries the progress reported last, not 0.
C3_FailureKeepsHistory == []FailureRecorded /\ [][FailureKeepsHistory(1)]_vars

\* C3 amended: the same, except that the history after the failure is the
\* newest HISTORY_MAX_ENTRIES events of the history before it followed by the
\* Failed event: with a full history the oldest event is dropped.
C3_FailureKeepsNewest == []FailureRecorded /\ [][FailureKeepsNewest(1)]_vars

\* A job that failed with a full history: the "queued" event is gone.
C3_Witness ==
    /\ Finished(1)
    /\ task[1].exc # None
    /\ jobs[1].status = FAILED
    /\ Len(jobs[1].history) = HISTORY_MAX_ENTRIES
    /\ jobs[1].history[1].step # "queued"
    /\ LastEvent(jobs[1]).progress >= 20

\* ---- C4
\* C4: along every execution of a job the progress of its events never goes
\* down from one event to the next, and is always within 0..100.
C4_ProgressMonotone ==
    \A j \in DOMAIN jobs :
        LET history == jobs[j].history IN
        /\ \A k \in 1..Len(history) : history[k].progress \in 0..100
        /\ \A k \in 1..(Len(history) - 1) : history[k].progress <= history[k + 1].progress

\* ---- C5
\* C5: with two jobs running, the keyframe timestamps of each job are those of
\* its own parsed segments, and each of its subtitle texts is the text its own
\* segments hold at the keyframe.
C5_OwnSegments ==
    \A j \in DOMAIN task :
        LET t == task[j]
            own == get_keyframe_timestamps(t.segments, t.request.screenshot_offset,
                                           t.request.screenshot_position)
        IN /\ t.keyframe_timestamps # << >> => t.keyframe_timestamps = own
           /\ \A k \in 1..Len(t.original_subtitle_texts) :
                 /\ k <= Len(own)
                 /\ t.original_subtitle_texts[k] = get_subtitle_at_time(t.segments, own[k])

\* ---- C6
\* C6: every response of a status poll has status, progress, message and
\* current_step equal to those of the last event of the history it carries.
C6_SnapshotIsLastEvent ==
    (snapshot # None /\ snapshot[1].history # << >>) =>
        LET job == snapshot[1]
            event == LastEvent(job)
        IN /\ job.status = event.status
           /\ job.progress = event.progress
           /\ job.message = event.message
           /\ job.current_step = Some(event.step)

\* ---- C7
\* C7: a submitted job eventually has status Completed or Failed, given that the
\* worker thread keeps running its task and every collaborator call returns or
\* raises; no step of the system other than the task's own ends it.
C7_JobTerminates == (1 \in DOMAIN jobs) ~> (1 \in DOMAIN jobs /\ Terminal(jobs[1]))

\* A job that ran through AI transcription, translation and an outline, and
\* one frame ffmpeg failed on, to Completed.
C7_Witness ==
    /\ Finished(1)
    /\ jobs[1].status = COMPLETED
    /\ task[1].acquired_path = Some(WhisperPath(task[1].request.url))
    /\ task[1].translated_subtitle_texts # None
    /\ task[1].ffmpeg_errors = MaxFfmpegErrors

\* ---- C8
AIRequested(t) == t.request.use_ai_transcription /\ t.request.whisper_api_key # None
FailedAt(t, label) == t.exc # None /\ t.exc[1].at = label

\* AI transcription is tried exactly when it is requested with a key, and the
\* platform captions are then fetched only after it failed; a job passes the
\* stage with platform captions only if the video has some.
FallbackChain(t) ==
    LET v == t.request.url IN
    /\ (t.pc = "transcribe" \/ t.whisper_error # None
          \/ t.acquired_path = Some(WhisperPath(v))) => AIRequested(t)
    /\ (AIRequested(t) /\ Reached(t) > Position("transcribe")) =>
          (t.whisper_error # None \/ t.acquired_path = Some(WhisperPath(v)))
    /\ (AIRequested(t) /\ (t.pc = "download_subtitles" \/ FailedAt(t, "download_subtitles")
                             \/ t.acquired_path = Some(CaptionPath(v)))) =>
          t.whisper_error # None
    /\ ~FailedAt(t, "transcribe")
    /\ t.acquired_path = Some(CaptionPath(v)) => Catalogue[v].captions # "none"
    /\ (FailedAt(t, "download_subtitles") /\ t.whisper_error # None) =>
          \/ Catalogue[v].captions = "none"
          \/ t.exc[1].message = "Failed to download subtitles"

OptimizerInvoked(t) ==
    \/ t.pc = "optimize"
    \/ t.acquired_path # None /\ OptimizedPath(t.acquired_path[1]) \in DOMAIN files

\* C9: the optimizer runs only in a job whose primary captions are flagged
\* auto-generated; in a job whose captions are not flagged, the optimizer is
\* never invoked and the segments parsed are those of the acquired caption file.
C9_OptimizerOnlyForAuto ==
    \A j \in DOMAIN task :
        LET t == task[j] IN
        /\ OptimizerInvoked(t) =>
              t.primary_subtitle_is_auto /\ Catalogue[t.request.url].captions = "auto"
        /\ (~t.primary_subtitle_is_auto /\ Reached(t) > Position("parse_srt")) =>
              /\ t.subtitle_path = t.acquired_path
              /\ t.segments = parse_srt(files[t.acquired_path[1]])

\* Human-authored captions that the optimizer would have merged, parsed as
\* they were downloaded.
C9_Witness ==
    /\ 1 \in DOMAIN task
    /\ Catalogue[task[1].request.url].captions = "manual"
    /\ Reached(task[1]) > Position("parse_srt")
    /\ Len(task[1].segments) = 3
    /\ Len(merge_segments(optimizer_parse_srt(files[task[1].acquired_path[1]]))) = 2

\* ---- C10
OptimizerFailed(job) == <<"optimization failed, using original">> \in Messages(job)

\* C10: after the optimizer stage of a job with auto-generated captions, the
\* optimized file is the one in use only if the merged segments are fewer than
\* the acquired ones by strictly more than 30%; with a reduction of 30% or
\* less, and when the optimizer raised, the acquired file stays in use; the
\* job never fails at this stage.
C10_AdoptOnlyAboveThreshold ==
    \A j \in DOMAIN task :
        LET t == task[j] IN
        /\ ~FailedAt(t, "optimize")
        /\ (t.primary_subtitle_is_auto /\ Reached(t) > Position("optimize")) =>
              LET acquired == optimizer_parse_srt(files[t.acquired_path[1]])
                  n == Len(acquired)
                  m == Len(merge_segments(acquired))
              IN /\ t.subtitle_path \in {t.acquired_path,
                                         Some(OptimizedPath(t.acquired_path[1]))}
                 /\ t.subtitle_path # t.acquired_path => 10 * (n - m) > 3 * n
                 /\ 10 * (n - m) <= 3 * n => t.subtitle_path = t.acquired_path
                 /\ OptimizerFailed(jobs[j]) => t.subtitle_path = t.acquired_path

\* Ten fragments merged to seven, a reduction of exactly 30%: the acquired
\* file was kept and the job went on to parse its ten segments.
C10_Witness ==
    /\ 1 \in DOMAIN task
    /\ task[1].request.url = "edge"
    /\ ~OptimizerFailed(jobs[1])
    /\ Reached(task[1]) > Position("parse_srt")
    /\ task[1].subtitle_path = task[1].acquired_path
    /\ Len(task[1].segments) = 10
    /\ get_optimization_stats(optimizer_parse_srt(files[task[1].acquired_path[1]]))
          .reduction_percentage = 3000

\* ---- C11
AIFirst(t) ==
    /\ t.request.translate_to # None
    /\ t.request.generate_outline
    /\ t.request.ai_provider # None

\* A dispatch of the AI translator raised.
AITranslationFailed(t) ==
    /\ t.translation # None
    /\ \E k \in 1..Len(t.translation[1].dispatches) :
          t.translation[1].dispatches[k].behaviour = "raise"

\* C11: with translation, an outline and a provider requested the AI translator
\* is called first, and once a dispatch of it has failed the generic backend is
\* called after it; without an outline or a provider the generic backend is
\* the only translator called.
C11_GenericAfterAIFailure ==
    \A j \in DOMAIN task :
        LET t == task[j] IN
        /\ (\E k \in 1..Len(t.translate_calls) :
               t.translate_calls[k] = "ai_translator.translate_batch") => AIFirst(t)
        /\ (t.request.translate_to # None /\ ~AIFirst(t) /\ Reached(t) > Position("texts")) =>
              t.translate_calls = <<"translator.batch_translate">>
        /\ (AIFirst(t) /\ Reached(t) > Position("texts")) =>
              Head(t.translate_calls) = "ai_translator.translate_batch"
        /\ (AIFirst(t) /\ AITranslationFailed(t)
              /\ Reached(t) >= Position("write_translated")) =>
              t.translate_calls =
                  <<"ai_translator.translate_batch", "translator.batch_translate">>

\* ---- C12
OutlineFailed(job) == <<"outline failed, skipped">> \in Messages(job)

\* No task raises out of the outline stage, and a job whose outline call raised
\* is not Failed and, once its task has ended, is Completed with a result that
\* has no outline.
OutlineFailureSkipped ==
    \A j \in DOMAIN task :
        /\ ~FailedAt(task[j], "outline")
        /\ OutlineFailed(jobs[j]) =>
              /\ task[j].exc = None
              /\ jobs[j].status # FAILED
              /\ Finished(j) =>
                    /\ jobs[j].status = COMPLETED
                    /\ jobs[j].result # None
                    /\ jobs[j].result[1].ai_outline = None

\* C12: a failure of the outline call never fails the job: the job goes on to
\* finalize and reaches Completed with a result whose outline is empty.
C12_OutlineFailureSkipped ==
    /\ []OutlineFailureSkipped
    /\ (1 \in DOMAIN jobs /\ OutlineFailed(jobs[1])) ~>
          (1 \in DOMAIN jobs /\ jobs[1].status = COMPLETED /\ jobs[1].result # None
             /\ jobs[1].result[1].ai_outline = None)

\* A job with translation and an outline requested, Completed after the outline
\* call raised.
C12_Witness ==
    /\ Finished(1)
    /\ task[1].request.generate_outline
    /\ OutlineFailed(jobs[1])
    /\ jobs[1].status = COMPLETED
    /\ jobs[1].result[1].ai_outline = None
    /\ jobs[1].result[1].translated_subtitle # None

\* ---- C13
Returned(fn) == call # None /\ call[1].fn = fn /\ call[1].result # None

\* C13: whatever the backend does, a translator returns a list as long as the
\* list it was given, and element i of it is the translation of text i or text
\* i itself.
C13_LengthPreserving ==
    (Returned("translate_batch") \/ Returned("batch_translate")) =>
        LET texts == call[1].texts
            result == call[1].result[1]
        IN /\ Len(result) = Len(texts)
           /\ \A k \in 1..Len(result) :
                 k <= Len(texts) /\ result[k] \in {Translated(texts[k]), texts[k]}

\* Three batches of one text each: the provider answered the first with too
\* many items, the second with too few, and raised on the third.
C13_Witness ==
    /\ Returned("translate_batch")
    /\ Len(call[1].dispatches) = 3
    /\ call[1].dispatches[1].behaviour = "too_many"
    /\ call[1].dispatches[2].behaviour = "complete"
    /\ call[1].dispatches[3].behaviour = "raise"
    /\ Len(call[1].result[1]) = 3

\* ---- C14
\* The dispatches of a call cover its texts from the first on, one batch after
\* the other, and the output holds the original texts of every batch whose
\* dispatch raised, at the positions of that batch.
BatchFailureContained(f) ==
    LET d == f.dispatches IN
    /\ \A k \in 1..Len(d) :
          /\ d[k].size >= 1
          /\ d[k].start = (IF k = 1 THEN 0 ELSE d[k - 1].start + d[k - 1].size)
          /\ d[k].behaviour = "raise" =>
                \A p \in (d[k].start + 1)..(d[k].start + d[k].size) :
                    p <= Len(f.all_translations) /\ f.all_translations[p] = f.texts[p]
    /\ f.result # None =>
          /\ f.texts # << >> =>
                d # << >> /\ d[Len(d)].start + d[Len(d)].size = Len(f.texts)
          /\ (\A k \in 1..Len(d) : d[k].behaviour = "raise") => f.result[1] = f.texts

\* C14: when the dispatch of a batch raises, the batch's original texts stand
\* in the output at the batch's positions and the next batch is dispatched: the
\* call returns only after every text was in a dispatched batch, and when every
\* dispatch raised its result is the list it was given.
C14_BatchFailureContained ==
    (call # None /\ call[1].fn = "translate_batch") => BatchFailureContained(call[1])

\* Six texts in two batches: the dispatch of the first raised, the second was
\* translated after it.
C14_Witness ==
    /\ Returned("translate_batch")
    /\ call[1].texts = SixTexts
    /\ Len(call[1].dispatches) = 2
    /\ call[1].dispatches[1].behaviour = "raise"
    /\ call[1].dispatches[2].behaviour = "complete"
    /\ call[1].result[1] = [k \in 1..6 |-> IF k <= 5 THEN T_a ELSE Translated(T_a)]

\* ---- C15
\* The texts of a list of segments one after the other, whitespace left out.
RECURSIVE TextOf(_)
TextOf(segments) ==
    IF segments = << >> THEN << >>
    ELSE SelectSeq(Head(segments).text, LAMBDA ch : ch # " ") \o TextOf(Tail(segments))

\* C15: the texts of the segments the punctuation-driven merge emits, joined
\* in order, are the texts of the fragments it was given, joined in order, up
\* to whitespace: no text is dropped and none is duplicated.
C15_ConcatenationInvariant ==
    Returned("merge_segments") =>
        TextOf(call[1].result[1]) = TextOf(call[1].segments)

\* ---- C16
\* Each segment starts no later than it ends and ends no later than the next starts.
TimeOrdered(segments) ==
    /\ \A k \in 1..Len(segments) : segments[k].start_time <= segments[k].end_time
    /\ \A k \in 1..(Len(segments) - 1) : segments[k].end_time <= segments[k + 1].start_time

\* C16 as stated: for every list of fragments, the segments either merge path
\* emits are in time order and do not overlap.
C16_SegmentsTimeOrdered ==
    (Returned("merge_segments") \/ Returned("smart_merge")) =>
        TimeOrdered(call[1].result[1])

\* C16 amended: for every list of fragments that are themselves in time order
\* and do not overlap, the segments either merge path emits are in time order
\* and do not overlap; the times of the segments are times of the fragments, so
\* fragments that overlap give segments that overlap.
C16_OrderedInputOrderedOutput ==
    (Returned("merge_segments") \/ Returned("smart_merge")) =>
        /\ TimeOrdered(call[1].segments) => TimeOrdered(call[1].result[1])
        /\ \A k \in 1..Len(call[1].result[1]) :
              \E a, b \in 1..Len(call[1].segments) :
                 /\ call[1].result[1][k].start_time \in
                       {call[1].segments[a].start_time, call[1].segments[a].end_time}
                 /\ call[1].result[1][k].end_time = call[1].segments[b].end_time

\* Three fragments with pauses between them, merged by punctuation into two
\* sentences and the overflow left at the end, a segment of no duration.
C16_Witness ==
    /\ Returned("merge_segments")
    /\ Len(call[1].segments) = 3
    /\ TimeOrdered(call[1].segments)
    /\ Len(call[1].result[1]) = 3
    /\ call[1].result[1][3].start_time = call[1].result[1][3].end_time
    /\ call[1].result[1][1].end_time < call[1].result[1][2].start_time

\* ---- C17
\* C17: no segment the heuristic merge emits is longer than max_chars, whatever
\* the fragments and the language hint, and it emits at least one segment for
\* every list that is not empty.
C17_HeuristicWithinMaxChars ==
    Returned("smart_merge") =>
        /\ \A k \in 1..Len(call[1].result[1]) : Len(call[1].result[1][k].text) <= max_chars
        /\ call[1].segments # << >> => call[1].result[1] # << >>

\* ---- C18
\* Twice the time the policy picks in a segment.
DoubledBase(segment, position) ==
    CASE position = "start" -> segment.start_time + segment.start_time
      [] position = "end" -> segment.end_time + segment.end_time
      [] OTHER -> segment.start_time + segment.end_time

\* C18: the selector returns one timestamp per segment, in the order of the
\* segments; each is the segment's start, end or midpoint (the midpoint for any
\* policy that is neither start nor end) plus the offset, or 0 where that sum is
\* negative; none is negative.
C18_OneTimestampPerSegment ==
    Returned("get_keyframe_timestamps") =>
        LET result == call[1].result[1] IN
        /\ Len(result) = Len(processor_segments)
        /\ \A k \in 1..Len(result) :
              LET shifted == DoubledBase(processor_segments[k], call[1].position)
                                + call[1].offset + call[1].offset
              IN /\ result[k] >= 0
                 /\ shifted >= 0 => result[k] = shifted
                 /\ shifted < 0 => result[k] = 0

\* Three segments, a policy that is none of the three and an offset of two
\* seconds back: the first two keyframes are held at 0, the third is the
\* midpoint less the offset.
C18_Witness ==
    /\ Returned("get_keyframe_timestamps")
    /\ call[1].position = "center"
    /\ call[1].offset = -2000
    /\ Len(processor_segments) = 3
    /\ processor_segments[3].start_time = 2000
    /\ processor_segments[3].end_time = 3000
    /\ call[1].result[1] = <<0, 0, 1000>>

\* ---- C19
\* C19: in the result of a job, frame indices are keyframe positions (from 1)
\* in increasing order, and the frame with index k has the timestamp of
\* keyframe k, the subtitle text of keyframe k and, when translation ran, the
\* translated text of keyframe k, whichever captures succeeded.
C19_FramesCarryOwnKeyframe ==
    \A j \in DOMAIN jobs :
        jobs[j].result # None =>
            LET frames == jobs[j].result[1].frames
                t == task[j]
            IN /\ \A a \in 1..Len(frames) :
                     LET k == frames[a].index IN
                     /\ k \in 1..Len(t.keyframe_timestamps)
                     /\ frames[a].timestamp = t.keyframe_timestamps[k]
                     /\ frames[a].subtitle = Some(t.original_subtitle_texts[k])
                     /\ t.translated_subtitle_texts # None =>
                           /\ k <= Len(t.translated_subtitle_texts[1])
                           /\ frames[a].subtitle_translated =
                                 Some(t.translated_subtitle_texts[1][k])
               /\ \A a \in 1..(Len(frames) - 1) : frames[a].index < frames[a + 1].index

\* ---- C20
\* The stage an event belongs to, by its step: 0 before the first stage, 1
\* metadata fetch, 2 video download, 3 subtitle acquisition, 4 subtitle
\* optimization, 5 subtitle parsing, 6 keyframe selection, 7 translation, 8
\* frame capture, 9 frame post-processing, 10 outline generation, 11 finalize,
\* 12 the end of the task.
StageOf(step) ==
    CASE step \in {"queued", "prepare"} -> 0
      [] step = "metadata" -> 1
      [] step = "download_video" -> 2
      [] step \in {"fetch_subtitles", "ai_transcription", "subtitle_selection"} -> 3
      [] step = "subtitle_optimize" -> 4
      [] step = "subtitle_parse" -> 5
      [] step = "keyframe_selection" -> 6
      [] step = "translate" -> 7
      [] step = "frame_capture" -> 8
      [] step = "frame_optimize" -> 9
      [] step = "ai_outline" -> 10
      [] step = "finalize" -> 11
      [] step \in {"complete", "failed"} -> 12

Steps(job) == {job.history[k].step : k \in 1..Len(job.history)}

\* C20: in the history of a job the stages of the events never go back: after
\* an event of a stage no event of an earlier stage is recorded; the Completed
\* event is recorded right after the finalize event, and nothing after it.
C20_StagesInOrder ==
    \A j \in DOMAIN jobs :
        LET history == jobs[j].history IN
        /\ \A k \in 1..(Len(history) - 1) :
              StageOf(history[k].step) <= StageOf(history[k + 1].step)
        /\ \A k \in 1..Len(history) :
              history[k].status = COMPLETED =>
                 /\ k = Len(history)
                 /\ k > 1
                 /\ history[k - 1].step = "finalize"

\* A Completed job whose history has an event of each of the eleven stages.
C20_Witness ==
    /\ Finished(1)
    /\ jobs[1].status = COMPLETED
    /\ {StageOf(step) : step \in Steps(jobs[1])} = 0..12
    /\ "ai_transcription" \in Steps(jobs[1])

\* ---- C21
RECURSIVE TotalChars(_)
TotalChars(texts) ==
    IF texts = << >> THEN 0 ELSE Len(Head(texts)) + TotalChars(Tail(texts))

\* The texts that were waiting when dispatch d of the call with frame f was
\* made.
RemainingAt(f, d) == SubSeq(f.texts, d.start + 1, Len(f.texts))

\* The batch was closed by the character target: there was a next text, the
\* batch had room for it by the item count, and it did not fit.
CutByChars(f, d) ==
    /\ d.size < max_batch_size
    /\ d.start + d.size < Len(f.texts)

\* C21: every batch translate_batch dispatches has the size computed from the
\* texts that remained when it was dispatched, holds between one and
\* max_batch_size texts, and its characters add up to no more than the
\* provider's target, unless it is a single text that alone exceeds the target.
C21_BatchWithinLimits ==
    (call # None /\ call[1].fn = "translate_batch") =>
        LET f == call[1]
            target == get_target_char_count(f.provider)
        IN \A k \in 1..Len(f.dispatches) :
              LET d == f.dispatches[k] IN
              /\ d.size = calculate_batch_by_char_count(RemainingAt(f, d), f.provider)
              /\ Len(d.batch) = d.size
              /\ d.size >= 1
              /\ d.size <= max_batch_size
              /\ \/ TotalChars(d.batch) <= target
                 \/ d.size = 1 /\ Len(d.batch[1]) > target

\* The local backend, three texts in three batches: the first two were closed
\* by the character target, the third is one text longer than the target.
C21_Witness ==
    /\ Returned("translate_batch")
    /\ call[1].provider = "ollama"
    /\ call[1].texts = <<LongText, LongText, OverTarget(ollama_target_chars)>>
    /\ Len(call[1].dispatches) = 3
    /\ CutByChars(call[1], call[1].dispatches[1])
    /\ call[1].dispatches[3].size = 1
    /\ TotalChars(call[1].dispatches[3].batch) > ollama_target_chars

\* ---- C22
RECURSIVE Concatenated(_, _)
\* The batches of dispatches 1..k, one after the other.
Concatenated(dispatches, k) ==
    IF k = 0 THEN << >> ELSE Concatenated(dispatches, k - 1) \o dispatches[k].batch

NoTextOverTarget(f) ==
    \A k \in 1..Len(f.texts) : Len(f.texts[k]) <= get_target_char_count(f.provider)

\* The batches dispatched so far and the texts still waiting are the list the
\* call was given; every batch holds a text, so there are no more dispatches
\* than texts; when the call has returned, the batches alone are the list.
BatchesReconstruct(f) ==
    /\ Concatenated(f.dispatches, Len(f.dispatches)) \o f.remaining_texts = f.texts
    /\ Len(f.dispatches) <= Len(f.texts)
    /\ f.result # None =>
          /\ f.remaining_texts = << >>
          /\ Concatenated(f.dispatches, Len(f.dispatches)) = f.texts

\* C22: for a list of texts none of which is longer than the provider's
\* target, the batches translate_batch dispatches, joined in the order of
\* dispatch, are the list it was given (same order, nothing twice, nothing
\* left out), and the call returns after finitely many dispatches.
C22_BatchesReconstructInput ==
    /\ [](call # None /\ call[1].fn = "translate_batch" /\ NoTextOverTarget(call[1])
             => BatchesReconstruct(call[1]))
    /\ <>(call # None /\ call[1].result # None)

\* Six texts within the target, returned after two batches of five and one.
C22_Witness ==
    /\ Returned("translate_batch")
    /\ call[1].texts = SixTexts
    /\ NoTextOverTarget(call[1])
    /\ Len(call[1].dispatches) = 2
    /\ call[1].dispatches[1].batch = SubSeq(SixTexts, 1, max_batch_size)
    /\ call[1].dispatches[2].batch = <<T_a>>

\* ---- C23
\* What the call put in its output for dispatch d.
OutputOf(f, d) == SubSeq(f.all_translations, d.start + 1, d.start + d.size)

\* C23: when the response to a batch of n texts parses to k < n translations,
\* the output of the batch holds these k translations at its first k positions
\* and the original texts at the positions after them.
C23_PartialTranslationsKept ==
    (call # None /\ call[1].fn = "translate_batch") =>
        \A i \in 1..Len(call[1].dispatches) :
            LET d == call[1].dispatches[i]
                parsed == ParsedResponse(d.batch, d.behaviour)
            IN (d.behaviour \in {"too_few", "unparseable"} /\ Len(parsed) < d.size) =>
                  /\ Len(OutputOf(call[1], d)) = d.size
                  /\ \A p \in 1..d.size :
                        OutputOf(call[1], d)[p] =
                            (IF p <= Len(parsed) THEN parsed[p] ELSE d.batch[p])

\* ---- C24
\* The text holds one sentence: its first sentence boundary is its last character.
OneSentence(text) == text # << >> /\ FirstBoundary(text) = Len(text)

\* C24: every segment the punctuation-driven merge emits holds one sentence:
\* its text ends with a sentence-ending character and has none before its end;
\* so for the last segment emitted and for the segment of the overflow too.
C24_OneSentencePerSegment ==
    Returned("merge_segments") =>
        \A k \in 1..Len(call[1].result[1]) : OneSentence(call[1].result[1][k].text)

\* ---- C25
\* How many of the first n fragments have terminal or pause punctuation.
Punctuated(segments, n) ==
    Cardinality({k \in 1..n : \E c \in 1..Len(segments[k].text) :
                                  segments[k].text[c] \in {".", "!", "?", ",", ";", ":"}})

Covering(segments, ts2) ==
    {k \in 1..Len(segments) :
        segments[k].start_time + segments[k].start_time <= ts2
        /\ ts2 < segments[k].end_time + segments[k].end_time}

\* C26: get_subtitle_at_time returns the text of the first segment, in the
\* order of the list, with start <= timestamp < end; when there is none and the
\* timestamp is the end of the last segment, the text of the last segment; in
\* every other case the empty text, so also at the end of a segment that is not
\* the last when no later segment is shown then.
C26_TextAt ==
    Returned("get_subtitle_at_time") =>
        LET segments == processor_segments
            ts2 == call[1].timestamp
            covering == Covering(segments, ts2)
            result == call[1].result[1]
        IN /\ covering # {} =>
                 \E k \in covering : /\ \A m \in covering : k <= m
                                     /\ result = segments[k].text
           /\ (covering = {} /\ segments # << >>
                 /\ ts2 = Last(segments).end_time + Last(segments).end_time) =>
                 result = Last(segments).text
           /\ (covering = {}
                 /\ (segments = << >>
                       \/ ts2 # Last(segments).end_time + Last(segments).end_time)) =>
                 result = << >>

\* Three segments with pauses between them: at the end of the last one its text
\* is returned.
C26_Witness ==
    /\ Returned("get_subtitle_at_time")
    /\ Len(processor_segments) = 3
    /\ processor_segments[2].start_time > processor_segments[1].end_time
    /\ call[1].timestamp = 2 * processor_segments[3].end_time
    /\ Covering(processor_segments, call[1].timestamp) = {}
    /\ call[1].result[1] = processor_segments[3].text

\* ---- C27
\* C27: with the policy "end" and no offset, for segments in time order that do
\* not overlap, the text the task pairs with keyframe i is the text of segment
\* i, for every i.
C27_EndKeyframeOwnText ==
    (call # None /\ call[1].fn = "original_subtitle_texts"
        /\ call[1].position = "end" /\ call[1].offset = 0
        /\ TimeOrdered(processor_segments)) =>
        /\ Len(call[1].result[1]) = Len(processor_segments)
        /\ \A i \in 1..Len(processor_segments) :
              call[1].result[1][i] = processor_segments[i].text

\* ---- C28
\* The history after one more event: the event at the tail, and the oldest
\* event gone when the history was full.
OneMore(history, event) ==
    IF Len(history) < HISTORY_MAX_ENTRIES THEN Append(history, event)
    ELSE Append(Tail(history), event)

\* A step leaves the history of job j as it is, or it is a progress update and
\* puts one event of the update's step at the tail.
HistoryStep(j) ==
    LET before == jobs[j].history
        after == jobs'[j].history
    IN IF Running(j) /\ task'[j].pending = Tail(task[j].pending)
       THEN /\ after # << >>
            /\ Last(after).step = Head(task[j].pending).step
            /\ after = OneMore(before, Last(after))
       ELSE after = before

\* C28: the history of a job never has more than HISTORY_MAX_ENTRIES events;
\* every progress update puts exactly one event at its tail, and when the
\* history is full only the oldest event goes while the others stay as they
\* were, in their order; nothing else changes a history.
C28_HistoryBoundedAppendOnly ==
    /\ [](\A j \in DOMAIN jobs : Len(jobs[j].history) <= HISTORY_MAX_ENTRIES)
    /\ [][\A j \in DOMAIN jobs : HistoryStep(j)]_vars

\* A full history whose first event is no longer the one of the job's creation.
C28_Witness ==
    /\ 1 \in DOMAIN jobs
    /\ Len(jobs[1].history) = HISTORY_MAX_ENTRIES
    /\ jobs[1].history[1].step # "queued"
    /\ Terminal(jobs[1])

\* ---- C29
\* C29: for every caption file and language hint, the segment count
\* get_optimization_stats reports is the number of segments optimize_srt_file
\* wrote for the same file, whichever merge the detector selected.
C29_StatsMeasureWrittenFile ==
    (call # None /\ call[1].fn = "optimize_srt_file" /\ call[1].stats # None) =>
        /\ call[1].stats[1].original_segments = Len(call[1].segments)
        /\ call[1].stats[1].optimized_segments = Len(call[1].result[1])

\* ---- C30
\* C30: no response of a status poll, wherever the poll falls between the
\* writes of the job's task, has status Completed without a result or status
\* Failed without an error.
C30_PollSeesTerminalFields ==
    snapshot # None =>
        /\ snapshot[1].status = COMPLETED => snapshot[1].result # None
        /\ snapshot[1].status = FAILED => snapshot[1].error # None

\* A poll that fell between the write of the result and the write of the
\* status, of a job that has Completed since.
C30_Witness ==
    /\ snapshot # None
    /\ snapshot[1].result # None
    /\ snapshot[1].status = PROCESSING
    /\ 1 \in DOMAIN jobs
    /\ jobs[1].status = COMPLETED

====
